---- MODULE Spec2Model ----
(***************************************************************************)
(* Model of the NBA prop analyzer core: identity resolution                *)
(* (normalize_name, find_player_stats), play scoring (score_play,          *)
(* merge_and_score), diversified selection (filter_top_plays / diversify)  *)
(* and the staking calculators of the dashboard (calculate_kelly,          *)
(* calculate_edge).                                                        *)
(*                                                                         *)
(* Conventions                                                             *)
(*   - Strings that the code inspects character by character (player       *)
(*     names) are sequences of one-character strings.                      *)
(*   - Optional values: None is <<>>, a present value v is <<v>>.          *)
(*   - Decimal numbers with one decimal place are integers in tenths       *)
(*     (24.8 is 248).  Other real numbers are exact fractions              *)
(*     [num, den] with den > 0.                                            *)
(*   - A pure function is a call frame: fn (the function), args (its       *)
(*     arguments), ret (its return value), pc ("call" before the call,     *)
(*     "done" after it).                                                   *)
(***************************************************************************)
EXTENDS Integers, Sequences, FiniteSets, TLC

VARIABLES
    pc,         \* position: "call", "overflow", "done"; for main(): "loaded", "merged", "filtered", "raised"
    fn,         \* the function the frame calls
    args,       \* its arguments
    ret,        \* its return value
    locals,     \* its local variables, where a function is modelled in steps
    dvp_rows,   \* main(): rows of the DVP shortlist CSV
    stats_db,   \* main(): last-N-days stats keyed by normalized name, in insertion order
    plays,      \* main(): result of merge_and_score
    top_plays,  \* main(): result of filter_top_plays, with the top_n / max_per_player used
    picks_file  \* dashboard: the stored picks list (my_picks.json); None while there is no readable file

vars == <<pc, fn, args, ret, locals, dvp_rows, stats_db, plays, top_plays, picks_file>>

frame == <<fn, args, ret, locals>>
mainVars == <<dvp_rows, stats_db, plays, top_plays, picks_file>>

None == <<>>
Some(v) == <<v>>
IsNone(o) == o = <<>>
Val(o) == o[1]

Range(s) == { s[i] : i \in 1..Len(s) }

Min(a, b) == IF a <= b THEN a ELSE b
Max(a, b) == IF a >= b THEN a ELSE b

\* All sequences over S of length 0..k
RECURSIVE SeqsUpTo(_, _)
SeqsUpTo(S, k) ==
    IF k = 0 THEN { <<>> }
    ELSE LET shorter == SeqsUpTo(S, k - 1)
         IN  shorter \cup { Append(s, x) : s \in { t \in shorter : Len(t) = k - 1 }, x \in S }

(***************************************************************************)
(* Strings                                                                 *)
(***************************************************************************)

\* str.lower() on one character of the alphabet used by the inputs
LowerChar(c) ==
    CASE c = "A" -> "a"
      [] c = "B" -> "b"
      [] c = "J" -> "j"
      [] c = "S" -> "s"
      [] c = "Q" -> "q"
      [] OTHER   -> c

Lower(s) == [ i \in 1..Len(s) |-> LowerChar(s[i]) ]

RECURSIVE LStrip(_)
LStrip(s) == IF s # <<>> /\ Head(s) = " " THEN LStrip(Tail(s)) ELSE s

RECURSIVE RStrip(_)
RStrip(s) == IF s # <<>> /\ s[Len(s)] = " " THEN RStrip(SubSeq(s, 1, Len(s) - 1)) ELSE s

Strip(s) == RStrip(LStrip(s))

EndsWith(s, suffix) ==
    /\ Len(s) >= Len(suffix)
    /\ SubSeq(s, Len(s) - Len(suffix) + 1, Len(s)) = suffix

\* "a in b" for strings
Contains(a, b) ==
    \E i \in 1..(Len(b) - Len(a) + 1) : SubSeq(b, i, i + Len(a) - 1) = a

\* s.split()[-1]: the last whitespace-separated token (s holds a non-space character)
RECURSIVE LastTokenOf(_)
LastTokenOf(s) ==
    IF s = <<>> \/ s[Len(s)] = " " THEN <<>>
    ELSE Append(LastTokenOf(SubSeq(s, 1, Len(s) - 1)), s[Len(s)])

LastToken(s) == LastTokenOf(RStrip(s))

(***************************************************************************)
(* normalize_name                                                          *)
(***************************************************************************)

SUFFIX_OFF_INJ == <<" ", "o", "f", "f", " ", "i", "n", "j">>
SUFFIX_INJ == <<" ", "i", "n", "j">>
SUFFIX_OUT == <<" ", "o", "u", "t">>
SUFFIX_Q == <<" ", "q">>
SUFFIX_GTD == <<" ", "g", "t", "d">>

INJURY_SUFFIXES == <<SUFFIX_OFF_INJ, SUFFIX_INJ, SUFFIX_OUT, SUFFIX_Q, SUFFIX_GTD>>

\* if name.endswith(suffix): name = name[:-len(suffix)]
StripSuffix(s, suffix) ==
    IF EndsWith(s, suffix) THEN SubSeq(s, 1, Len(s) - Len(suffix)) ELSE s

\* the for loop over the suffix list, from suffix i on: one pass, in list order
RECURSIVE StripSuffixes(_, _)
StripSuffixes(s, i) ==
    IF i > Len(INJURY_SUFFIXES) THEN s
    ELSE StripSuffixes(StripSuffix(s, INJURY_SUFFIXES[i]), i + 1)

normalize_name(name) == Strip(StripSuffixes(Strip(Lower(name)), 1))

\* ---- inputs of normalize_name: names built from at most MaxPieces pieces
MaxPieces == 3

NamePieces == { <<"A">>, <<"b">>, <<" ">>,
                SUFFIX_OFF_INJ, SUFFIX_INJ, SUFFIX_OUT, SUFFIX_Q, SUFFIX_GTD }

RECURSIVE Concat(_)
Concat(ps) == IF ps = <<>> THEN <<>> ELSE Head(ps) \o Concat(Tail(ps))

RawNames == { Concat(ps) : ps \in SeqsUpTo(NamePieces, MaxPieces) }

InitName ==
    /\ pc = "call"
    /\ fn = "normalize_name"
    /\ args \in { [name |-> x] : x \in RawNames }
    /\ ret = None /\ locals = None
    /\ dvp_rows = None /\ stats_db = None /\ plays = None /\ top_plays = None /\ picks_file = None

NormalizeName ==
    /\ pc = "call"
    /\ fn = "normalize_name"
    /\ ret' = Some(normalize_name(args.name))
    /\ pc' = "done"
    /\ UNCHANGED <<fn, args, locals, mainVars>>

NextName == NormalizeName

SpecName == InitName /\ [][NextName]_vars

NameDone == pc = "done" /\ fn = "normalize_name"

\* C5: normalize_name is idempotent: normalizing a normalized name changes
\* nothing, also for names ending in two or more injury-status tokens.
C5_Idempotent ==
    NameDone => normalize_name(Val(ret)) = Val(ret)

(***************************************************************************)
(* find_player_stats                                                       *)
(***************************************************************************)

\* a stats_db is a dict in insertion order: a sequence of entries
\* [key |-> normalized name, stats |-> the CSV row] with distinct keys
DbKeysOf(db) == { db[i].key : i \in 1..Len(db) }

\* if key in db_key or db_key in key
SubstringMatch(key, db_key) == Contains(key, db_key) \/ Contains(db_key, key)

\* if key.split()[-1] == db_key.split()[-1]: if key[0] == db_key[0]
SurnameMatch(key, db_key) ==
    /\ LastToken(key) = LastToken(db_key)
    /\ key[1] = db_key[1]

\* what one iteration of the loop over stats_db.items() tests for a record
LoopMatch(key, db_key) == SubstringMatch(key, db_key) \/ SurnameMatch(key, db_key)

find_player_stats(player_name, db) ==
    LET key == normalize_name(player_name)
        hits == { i \in 1..Len(db) : LoopMatch(key, db[i].key) }
    IN  IF key \in DbKeysOf(db)
        THEN Some((CHOOSE e \in Range(db) : e.key = key).stats)
        ELSE IF hits = {} THEN None
        ELSE Some(db[CHOOSE i \in hits : \A j \in hits : i <= j].stats)

\* ---- inputs of find_player_stats
MaxDb == 3

\* "J S", "j s q", "j s x", "z k"
FindNames == { <<"J", " ", "S">>, <<"j", " ", "s", " ", "q">>,
               <<"j", " ", "s", " ", "x">>, <<"z", " ", "k">> }

\* "j s", "jo s", "j s x", "b k"
FindDbKeys == { <<"j", " ", "s">>, <<"j", "o", " ", "s">>,
                <<"j", " ", "s", " ", "x">>, <<"b", " ", "k">> }

Injective(s) == \A i, j \in 1..Len(s) : s[i] = s[j] => i = j

FindDbs ==
    { [ i \in 1..Len(ks) |-> [key |-> ks[i], stats |-> [player |-> ks[i]]] ] :
        ks \in { t \in SeqsUpTo(FindDbKeys, MaxDb) : Injective(t) } }

InitFind ==
    /\ pc = "call"
    /\ fn = "find_player_stats"
    /\ args \in { [player_name |-> x, stats_db |-> db] : x \in FindNames, db \in FindDbs }
    /\ ret = None /\ locals = None
    /\ dvp_rows = None /\ stats_db = None /\ plays = None /\ top_plays = None /\ picks_file = None

FindPlayerStats ==
    /\ pc = "call"
    /\ fn = "find_player_stats"
    /\ ret' = find_player_stats(args.player_name, args.stats_db)
    /\ pc' = "done"
    /\ UNCHANGED <<fn, args, locals, mainVars>>

NextFind == FindPlayerStats

SpecFind == InitFind /\ [][NextFind]_vars

FindDone == pc = "done" /\ fn = "find_player_stats"

\* the entries of the mapping that match the looked-up name by each rule
ExactHits == { e \in Range(args.stats_db) : e.key = normalize_name(args.player_name) }
SubstringHits ==
    { e \in Range(args.stats_db) : SubstringMatch(normalize_name(args.player_name), e.key) }
SurnameHits ==
    { e \in Range(args.stats_db) : SurnameMatch(normalize_name(args.player_name), e.key) }

\* C6: the matching rules apply in order over the whole mapping: the exact
\* match if there is one; otherwise a record matching by substring
\* containment if any record matches that way; a surname-and-first-character
\* match only when no record matches by substring; None when nothing matches.
C6_RuleOrder ==
    FindDone =>
        /\ ExactHits # {} => ret \in { Some(e.stats) : e \in ExactHits }
        /\ (ExactHits = {} /\ SubstringHits # {})
               => ret \in { Some(e.stats) : e \in SubstringHits }
        /\ (ExactHits = {} /\ SubstringHits = {} /\ SurnameHits # {})
               => ret \in { Some(e.stats) : e \in SurnameHits }
        /\ (ExactHits = {} /\ SubstringHits = {} /\ SurnameHits = {}) => ret = None

(***************************************************************************)
(* Play and filter_top_plays.diversify                                     *)
(***************************************************************************)

\* the Play dataclass (the pass-through fields team, position, opponent,
\* line and edge_pct are left out); score 0.0, projected and adjusted_dvp None
\* as the dataclass defaults
Play(player, stat, dvp_value, tier, recent_avg, games_played, mpg) ==
    [player |-> player, stat |-> stat, dvp_value |-> dvp_value, tier |-> tier,
     recent_avg |-> recent_avg, games_played |-> games_played, mpg |-> mpg,
     score |-> 0, projected |-> None, adjusted_dvp |-> None]

\* Python dicts with a default of 0 for absent keys
DictGet(d, k) == IF k \in DOMAIN d THEN d[k] ELSE 0
DictPut(d, k, v) == [ x \in (DOMAIN d) \cup {k} |-> IF x = k THEN v ELSE d[x] ]
SetDefault(d, k) == IF k \in DOMAIN d THEN d ELSE DictPut(d, k, 0)
EmptyDict == [ x \in {} |-> 0 ]

RECURSIVE SumOver(_, _)
SumOver(d, keys) ==
    IF keys = {} THEN 0
    ELSE LET k == CHOOSE x \in keys : TRUE IN d[k] + SumOver(d, keys \ {k})

DictSum(d) == SumOver(d, DOMAIN d)

\* player_key = p.player.lower()
PlayerKey_m(p) == p.player
PlayerKey(p) == Lower(p.player)

\* max_player > 0 and player_counts[player_key] >= max_player
PlayerAtLimit_m(max_player, count) == max_player > 0 /\ count > max_player
PlayerAtLimit(max_player, count) == max_player > 0 /\ count >= max_player

\* stat_counts[stat] < 3
StatHasRoom_m(count) == count <= 3
StatHasRoom(count) == count < 3

\* result.append(p)
Admit_m(result, p) == <<p>> \o result
Admit(result, p) == Append(result, p)

\* p not in result: list membership by dataclass equality (field by field)
NotInResult(p, result) == \A i \in 1..Len(result) : result[i] # p

\* one iteration of the first loop for play p; st = [result, stat_counts, player_counts];
\* brk: the loop left by break
FirstPassStep(st, p, n, max_player) ==
    LET stat == p.stat
        player_key == PlayerKey(p)
        sc == SetDefault(st.stat_counts, stat)
        pcs == SetDefault(st.player_counts, player_key)
        st1 == [st EXCEPT !.stat_counts = sc, !.player_counts = pcs]
    IN  IF PlayerAtLimit(max_player, pcs[player_key])
        THEN [st |-> st1, brk |-> FALSE]
        ELSE LET st2 == IF StatHasRoom(sc[stat])
                        THEN [result |-> Admit(st.result, p),
                              stat_counts |-> DictPut(sc, stat, sc[stat] + 1),
                              player_counts |-> DictPut(pcs, player_key, pcs[player_key] + 1)]
                        ELSE st1
             IN  [st |-> st2, brk |-> Len(st2.result) >= n]

RECURSIVE FirstPassFrom(_, _, _, _, _)
FirstPassFrom(plays_list, i, n, max_player, st) ==
    IF i > Len(plays_list) THEN st
    ELSE LET r == FirstPassStep(st, plays_list[i], n, max_player)
         IN  IF r.brk THEN r.st
             ELSE FirstPassFrom(plays_list, i + 1, n, max_player, r.st)

FirstPass(plays_list, n, max_player) ==
    FirstPassFrom(plays_list, 1, n, max_player,
                  [result |-> <<>>, stat_counts |-> EmptyDict, player_counts |-> EmptyDict])

\* one iteration of the overflow loop for play p
OverflowStep(st, p, n, max_player) ==
    LET player_key == PlayerKey(p)
        count == DictGet(st.player_counts, player_key)
    IN  IF NotInResult(p, st.result)
        THEN IF PlayerAtLimit(max_player, count)
             THEN [st |-> st, brk |-> FALSE]
             ELSE LET st2 == [st EXCEPT !.result = Admit(st.result, p),
                                        !.player_counts = DictPut(st.player_counts, player_key, count + 1)]
                  IN  [st |-> st2, brk |-> Len(st2.result) >= n]
        ELSE [st |-> st, brk |-> Len(st.result) >= n]

RECURSIVE OverflowFrom(_, _, _, _, _)
OverflowFrom(plays_list, i, n, max_player, st) ==
    IF i > Len(plays_list) THEN st
    ELSE LET r == OverflowStep(st, plays_list[i], n, max_player)
         IN  IF r.brk THEN r.st
             ELSE OverflowFrom(plays_list, i + 1, n, max_player, r.st)

\* if len(result) < n: the overflow loop
OverflowPass(plays_list, n, max_player, st) ==
    IF Len(st.result) < n THEN OverflowFrom(plays_list, 1, n, max_player, st) ELSE st

\* result[:n]
Prefix(s, n) == SubSeq(s, 1, Min(Len(s), Max(n, 0)))

diversify(plays_list, n, max_player) ==
    Prefix(OverflowPass(plays_list, n, max_player, FirstPass(plays_list, n, max_player)).result, n)

\* ---- inputs of diversify: score-sorted lists of scored plays
MaxLen == 5

\* <<player, stat, score (tenths)>>
DivPlayTuples ==
    { << <<"A">>, "PTS", 1129 >>, << <<"a">>, "PTS", 1129 >>,
      << <<"B">>, "PTS", 1129 >>, << <<"B">>, "REB", 1129 >>,
      << <<"B">>, "PTS", 1000 >>, << <<"A">>, "REB", 1000 >>,
      << <<"a">>, "REB", 900 >>,  << <<"A">>, "PTS", 900 >> }

DivPlays ==
    { [Play(t[1], t[2], 248, "WORST", Some(280), Some(8), None) EXCEPT !.score = t[3]] :
        t \in DivPlayTuples }

DivNs == { 1, 2, MaxLen }
DivCaps == { 0, 1, 2 }

SortedByScore(l) == \A i \in 1..(Len(l) - 1) : l[i].score >= l[i + 1].score

InitDiversify ==
    /\ pc = "call"
    /\ fn = "diversify"
    /\ args \in { [plays_list |-> l, n |-> n, max_player |-> m] :
                    l \in { x \in SeqsUpTo(DivPlays, MaxLen) : SortedByScore(x) },
                    n \in DivNs, m \in DivCaps }
    /\ ret = None /\ locals = None
    /\ dvp_rows = None /\ stats_db = None /\ plays = None /\ top_plays = None /\ picks_file = None

\* the first loop of diversify
DiversifyFirstPass ==
    /\ pc = "call"
    /\ fn = "diversify"
    /\ locals' = FirstPass(args.plays_list, args.n, args.max_player)
    /\ pc' = "overflow"
    /\ UNCHANGED <<fn, args, ret, mainVars>>

\* the overflow loop and the return
DiversifyOverflow ==
    /\ pc = "overflow"
    /\ fn = "diversify"
    /\ locals' = OverflowPass(args.plays_list, args.n, args.max_player, locals)
    /\ ret' = Some(Prefix(locals'.result, args.n))
    /\ pc' = "done"
    /\ UNCHANGED <<fn, args, mainVars>>

NextDiversify == DiversifyFirstPass \/ DiversifyOverflow

SpecDiversify == InitDiversify /\ [][NextDiversify]_vars

DivDone == pc = "done" /\ fn = "diversify"

\* number of plays of a list with the given (lowercased) player / stat
CountPlayer(l, key) == Cardinality({ i \in 1..Len(l) : Lower(l[i].player) = key })
CountStat(l, stat) == Cardinality({ i \in 1..Len(l) : l[i].stat = stat })

\* how many plays the first pass admitted: stat_counts is only written there
FirstPassAdmitted == DictSum(locals.stat_counts)

\* C1: with max_per_player >= 1 the returned list holds at most
\* max_per_player plays of any player, names compared case-insensitively;
\* with max_per_player = 0 the result is the one a limit that can never bind
\* gives.
C1_PlayerCap ==
    DivDone =>
        /\ args.max_player >= 1 =>
              \A i \in 1..Len(Val(ret)) :
                  CountPlayer(Val(ret), Lower(Val(ret)[i].player)) <= args.max_player
        /\ args.max_player = 0 =>
              Val(ret) = diversify(args.plays_list, args.n, Len(args.plays_list) + 1)

\* a capped call whose input holds more plays of one player (in two
\* spellings) than the cap, and whose overflow pass ran
C1_Witness ==
    /\ DivDone
    /\ args.max_player = 1
    /\ \E i, j \in 1..Len(args.plays_list) :
          /\ args.plays_list[i].player = <<"A">>
          /\ args.plays_list[j].player = <<"a">>
    /\ FirstPassAdmitted < args.n
    /\ Len(Val(ret)) >= 2

\* plays available after the per-player cap
RECURSIVE SumMinCount(_, _, _)
SumMinCount(l, keys, cap) ==
    IF keys = {} THEN 0
    ELSE LET k == CHOOSE x \in keys : TRUE
         IN  Min(CountPlayer(l, k), cap) + SumMinCount(l, keys \ {k}, cap)

AvailableAfterCap(l, max_player) ==
    IF max_player = 0 THEN Len(l)
    ELSE SumMinCount(l, { Lower(l[i].player) : i \in 1..Len(l) }, max_player)

\* C2: diversify returns exactly min(n, available-after-cap) plays, for every
\* input list, also one with identical play rows.
C2_ExactCount ==
    DivDone =>
        Len(Val(ret)) = Min(args.n, AvailableAfterCap(args.plays_list, args.max_player))

\* C2, restricted to lists without identical rows: there the count is exact.
C2_ExactCountDistinct ==
    DivDone /\ Injective(args.plays_list) =>
        Len(Val(ret)) = Min(args.n, AvailableAfterCap(args.plays_list, args.max_player))

\* C8: the per-stat limit of 3 governs the first pass: a play admitted there
\* has fewer than 3 earlier-admitted plays of its stat; when the first pass
\* alone admits n plays the output holds at most 3 plays per stat; a stat
\* exceeds 3 plays in the output only through overflow admissions made when
\* the first pass admitted fewer than n.
C8_StatLimit ==
    /\ (pc = "overflow" /\ fn = "diversify") =>
          \A j \in 1..Len(locals.result) :
              Cardinality({ k \in 1..(j - 1) :
                              locals.result[k].stat = locals.result[j].stat }) < 3
    /\ DivDone =>
          /\ \A st \in DOMAIN locals.stat_counts : locals.stat_counts[st] <= 3
          /\ FirstPassAdmitted >= args.n =>
                \A i \in 1..Len(Val(ret)) : CountStat(Val(ret), Val(ret)[i].stat) <= 3
          /\ \A i \in 1..Len(Val(ret)) :
                CountStat(Val(ret), Val(ret)[i].stat) > 3 =>
                    /\ FirstPassAdmitted < args.n
                    /\ Len(Val(ret)) > FirstPassAdmitted

\* an output holding more than 3 plays of one stat
C8_Witness ==
    /\ DivDone
    /\ \E i \in 1..Len(Val(ret)) : CountStat(Val(ret), Val(ret)[i].stat) > 3

\* C9 (as claimed): the returned list is score-descending, also when plays
\* were admitted by the overflow pass.
C9_ScoreDescending ==
    DivDone => SortedByScore(Val(ret))

\* C9 (amended): the returned list is in admission order; the first-pass
\* admissions form a score-descending prefix and the overflow admissions a
\* score-descending remainder.
C9_AdmissionOrder ==
    DivDone =>
        LET r == Val(ret)
            k == Min(FirstPassAdmitted, Len(r))
        IN  /\ r = Prefix(locals.result, args.n)
            /\ SortedByScore(SubSeq(r, 1, k))
            /\ SortedByScore(SubSeq(r, k + 1, Len(r)))

\* an overflow admission placed a higher-scored play after a lower-scored one
C9_Witness ==
    /\ DivDone
    /\ Len(Val(ret)) > FirstPassAdmitted
    /\ ~SortedByScore(Val(ret))

(***************************************************************************)
(* Numbers                                                                 *)
(***************************************************************************)

\* round(num / den) to the nearest integer, ties to the even one (den > 0).
\* Python rounds the binary float; the exact fraction is rounded here, which
\* can differ only where the exact value is a tie.
RoundHalfEven(num, den) ==
    LET q == num \div den
        r == num - q * den
    IN  IF 2 * r < den THEN q
        ELSE IF 2 * r > den THEN q + 1
        ELSE IF q % 2 = 0 THEN q ELSE q + 1

(***************************************************************************)
(* CSV cells: every value read by csv.DictReader is a string               *)
(***************************************************************************)

Num(v) == <<"num", v>>      \* the text of the decimal number v / 10
Blank == <<"blank">>        \* the empty string
Text == <<"text">>          \* a non-empty string that float() rejects
Missing == <<"missing">>    \* dict.get() of an absent key: None

\* row.get(col): rows and stats records are functions from column names to cells
Get(row, col) == IF col \in DOMAIN row THEN row[col] ELSE Missing

\* truthiness of a cell value ("if games_val:")
Truthy(cell) == cell # Blank /\ cell # Missing

\* float(cell): Some(tenths), or None where float() raises ValueError
ParseFloat(cell) == IF cell[1] = "num" THEN Some(cell[2]) ELSE None

\* int(x) of a float in tenths: truncation toward zero
IntOfFloat(v) == IF v >= 0 THEN v \div 10 ELSE -((-v) \div 10)

(***************************************************************************)
(* get_recent_stat, calculate_projection, score_play                       *)
(***************************************************************************)

MIN_GAMES == 2

STAT_MAP == [PTS |-> "pts", REB |-> "reb", AST |-> "ast", PRA |-> "pra", PR |-> "pr",
             PA |-> "pa", STL |-> "stl", BLK |-> "blk"] @@ ("3PM" :> "fg3")

\* STAT_MAP.get(stat_name.upper(), stat_name.lower()); stat names are upper case here
StatColumn(stat_name) ==
    IF stat_name \in DOMAIN STAT_MAP THEN STAT_MAP[stat_name] ELSE stat_name

get_recent_stat(stats, stat_name) ==
    LET val == Get(stats, StatColumn(stat_name))
    IN  IF val = Missing \/ val = Blank THEN None ELSE ParseFloat(val)

\* minutes, in tenths, whose share of the 48 position minutes scales the DVP:
\* min(mpg / 48, 1) when mpg is known and positive, else 30 / 48
ShareMinutes_m(mpg) ==
    IF mpg # None /\ Val(mpg) > 0 THEN Val(mpg) ELSE 300
ShareMinutes(mpg) ==
    IF mpg # None /\ Val(mpg) > 0 THEN Min(Val(mpg), 480) ELSE 300

\* round(0.6 * recent_avg + 0.4 * dvp_value * minutes_share, 1), in tenths
calculate_projection(recent_avg, dvp_value, tier, player_mpg) ==
    RoundHalfEven(6 * recent_avg * 480 + 4 * dvp_value * ShareMinutes(player_mpg), 10 * 480)

\* the two early returns of score_play
Scorable(play) ==
    /\ play.recent_avg # None
    /\ play.games_played # None
    /\ Val(play.games_played) >= MIN_GAMES

\* games_factor = min(games_played / 5, 1.0), in fifths
GamesFactor_m(games_played) == games_played
GamesFactor(games_played) == Min(games_played, 5)

\* "if play.dvp_value > 0" of the UNDER branch
UnderGuard_m(dvp_value) == TRUE
UnderGuard(dvp_value) == dvp_value > 0

\* the value score_play returns, in tenths
ScoreOf(play) ==
    IF ~Scorable(play) THEN 0
    ELSE LET g == GamesFactor(Val(play.games_played))
             r == Val(play.recent_avg)
             d == play.dvp_value
             neutral == RoundHalfEven(g * 1000, 5)          \* performance_ratio = 1.0
         IN  IF play.tier = "WORST"
             THEN IF d > 0 THEN RoundHalfEven(r * g * 1000, d * 5)   \* recent_avg / dvp_value
                  ELSE neutral
             ELSE IF UnderGuard(d)
                  THEN RoundHalfEven(d * g * 1000, Max(r, 1) * 5)    \* dvp / max(recent, 0.1)
                  ELSE neutral

\* score_play writes adjusted_dvp and projected into the play it scores;
\* merge_and_score stores the returned score
score_play(play) ==
    IF ~Scorable(play) THEN [play EXCEPT !.score = 0]
    ELSE [play EXCEPT
            !.adjusted_dvp = Some(RoundHalfEven(play.dvp_value * ShareMinutes(play.mpg), 480)),
            !.projected = Some(calculate_projection(Val(play.recent_avg), play.dvp_value,
                                                    play.tier, play.mpg)),
            !.score = ScoreOf(play)]

(***************************************************************************)
(* merge_and_score                                                         *)
(***************************************************************************)

\* player = row.get("player", "").strip(); if not player: continue
RowPlayer(row) == Strip(IF "player" \in DOMAIN row THEN row["player"] ELSE <<>>)

KeepRow_m(row) == TRUE
KeepRow(row) == RowPlayer(row) # <<>>

\* games = int(float(games_val)) if games_val is truthy and numeric
ParseGames(stats) ==
    LET games_val == Get(stats, "games")
    IN  IF Truthy(games_val) /\ ParseFloat(games_val) # None
        THEN Some(IntOfFloat(Val(ParseFloat(games_val))))
        ELSE None

ParseMpg(stats) ==
    LET mpg_val == Get(stats, "mpg")
    IN  IF Truthy(mpg_val) THEN ParseFloat(mpg_val) ELSE None

\* float(row.get("opp_dvp_value", 0)): None where float() raises ValueError
RowDvp(row) ==
    IF "opp_dvp_value" \in DOMAIN row THEN ParseFloat(row["opp_dvp_value"]) ELSE Some(0)

\* the body of the loop for one kept row whose opp_dvp_value parses
MergeRow(row, db) ==
    LET stats == find_player_stats(RowPlayer(row), db)
        found == stats # None /\ DOMAIN Val(stats) # {}      \* "if stats:"
        stat_name == IF "stat" \in DOMAIN row THEN row["stat"] ELSE ""
    IN  score_play(Play(RowPlayer(row),
                        stat_name,
                        Val(RowDvp(row)),
                        IF "tier" \in DOMAIN row THEN row["tier"] ELSE "",
                        IF found THEN get_recent_stat(Val(stats), stat_name) ELSE None,
                        IF found THEN ParseGames(Val(stats)) ELSE None,
                        IF found THEN ParseMpg(Val(stats)) ELSE None))

\* float() of a kept row's opp_dvp_value raises ValueError
MergeRaises(rows) ==
    \E i \in 1..Len(rows) : KeepRow(rows[i]) /\ RowDvp(rows[i]) = None

\* the returned list (when nothing raises)
merge_and_score(rows, db) ==
    LET kept == SelectSeq(rows, KeepRow)
    IN  [ k \in 1..Len(kept) |-> MergeRow(kept[k], db) ]

(***************************************************************************)
(* filter_top_plays                                                        *)
(***************************************************************************)

IsValidPlay_m(p) == p.recent_avg # None /\ p.games_played # None
IsValidPlay(p) ==
    /\ p.recent_avg # None
    /\ p.games_played # None
    /\ Val(p.games_played) >= MIN_GAMES

IsOver_m(p) == p.tier # "BEST"
IsOver(p) == p.tier = "WORST"
IsUnder(p) == p.tier = "BEST"

\* list.sort(key=score, reverse=True): stable, descending
RECURSIVE InsertByScore(_, _)
InsertByScore(sorted, p) ==
    IF sorted = <<>> THEN <<p>>
    ELSE IF sorted[Len(sorted)].score >= p.score THEN Append(sorted, p)
    ELSE Append(InsertByScore(SubSeq(sorted, 1, Len(sorted) - 1), p), sorted[Len(sorted)])

RECURSIVE SortByScoreDesc(_)
SortByScoreDesc(l) ==
    IF l = <<>> THEN <<>>
    ELSE InsertByScore(SortByScoreDesc(SubSeq(l, 1, Len(l) - 1)), l[Len(l)])

filter_top_plays(all_plays, top_n, max_per_player) ==
    LET valid_plays == SelectSeq(all_plays, IsValidPlay)
        overs == SortByScoreDesc(SelectSeq(valid_plays, IsOver))
        unders == SortByScoreDesc(SelectSeq(valid_plays, IsUnder))
    IN  [overs |-> diversify(overs, top_n, max_per_player),
         unders |-> diversify(unders, top_n, max_per_player)]

(***************************************************************************)
(* main(): load, merge_and_score, filter_top_plays                         *)
(***************************************************************************)

MaxRows == 2

\* "", " ", "J S", "b k"
RowPlayers == { <<>>, <<" ">>, <<"J", " ", "S">>, <<"b", " ", "k">> }

\* rows as export_results_to_csv writes them: opp_dvp_value is a number
ShortlistRows ==
    { [player |-> pl, stat |-> "PTS", opp_dvp_value |-> Num(d), tier |-> t] :
        pl \in RowPlayers, d \in {0, 248}, t \in {"WORST", "BEST", "MID"} }

StatsRow(name, games, pts, mpg) ==
    [key |-> name, stats |-> [player |-> name, games |-> games, pts |-> pts, mpg |-> mpg]]

KeyJS == <<"j", " ", "s">>
KeyBK == <<"b", " ", "k">>

\* the stats files: none, a full record, too few games, unknown games and
\* minutes, unknown average, non-numeric cells, a record without minutes,
\* and two players of whom one has too few games
StatsDbs ==
    { <<>>,
      << StatsRow(KeyJS, Num(80), Num(280), Num(310)) >>,
      << StatsRow(KeyJS, Num(10), Num(280), Num(310)) >>,
      << StatsRow(KeyJS, Blank, Num(280), Blank) >>,
      << StatsRow(KeyJS, Num(80), Blank, Num(310)) >>,
      << StatsRow(KeyJS, Text, Text, Text) >>,
      << [key |-> KeyJS, stats |-> [player |-> KeyJS, games |-> Num(30), pts |-> Num(121)]] >>,
      << StatsRow(KeyJS, Num(80), Num(280), Num(310)),
         StatsRow(KeyBK, Num(10), Num(100), Num(520)) >> }

TopNs == { 1, MaxRows }
PlayerCaps == { 0, 1 }

Init ==
    /\ pc = "loaded"
    /\ fn = "main"
    /\ args = None /\ ret = None /\ locals = None
    /\ dvp_rows \in SeqsUpTo(ShortlistRows, MaxRows)
    /\ stats_db \in StatsDbs
    /\ plays = None
    /\ top_plays = None /\ picks_file = None

\* plays = merge_and_score(dvp_rows, stats_db)
MergeAndScore ==
    /\ pc = "loaded"
    /\ IF MergeRaises(dvp_rows)
       THEN pc' = "raised" /\ plays' = None
       ELSE pc' = "merged" /\ plays' = Some(merge_and_score(dvp_rows, stats_db))
    /\ UNCHANGED <<frame, dvp_rows, stats_db, top_plays, picks_file>>

\* top_plays = filter_top_plays(plays, top_n, max_per_player)
FilterTopPlays ==
    /\ pc = "merged"
    /\ \E top_n \in TopNs, max_per_player \in PlayerCaps :
          top_plays' = [top_n |-> top_n, max_per_player |-> max_per_player]
                         @@ filter_top_plays(Val(plays), top_n, max_per_player)
    /\ pc' = "filtered"
    /\ UNCHANGED <<frame, dvp_rows, stats_db, plays, picks_file>>

Next == MergeAndScore \/ FilterTopPlays

Spec == Init /\ [][Next]_vars

Unscorable(p) ==
    \/ p.recent_avg = None
    \/ p.games_played = None
    \/ Val(p.games_played) < 2

\* C3: a play with fewer than 2 games, or with recent_avg or games_played
\* unknown, is scored 0 and is never placed in the overs or the unders list,
\* whatever its dvp_value, tier, top_n and max_per_player.
C3_UnscorableExcluded ==
    /\ pc \in {"merged", "filtered"} =>
          \A i \in 1..Len(Val(plays)) :
              Unscorable(Val(plays)[i]) =>
                  /\ Val(plays)[i].score = 0
                  /\ ScoreOf(Val(plays)[i]) = 0
    /\ pc = "filtered" =>
          \A p \in Range(top_plays.overs) \cup Range(top_plays.unders) : ~Unscorable(p)

\* a play with 1 game and a favourable rating stays out although the overs
\* list has room left
C3_Witness ==
    /\ pc = "filtered"
    /\ \E i \in 1..Len(Val(plays)) :
          /\ Val(plays)[i].games_played = Some(1)
          /\ Val(plays)[i].tier = "WORST"
          /\ Val(plays)[i].dvp_value > 0
    /\ Len(top_plays.overs) < top_plays.top_n

\* no key of the stats mapping matches the row's player by any rule
Unresolved(row) ==
    \A e \in Range(stats_db) :
        ~LoopMatch(normalize_name(row.player), e.key)

NamedRows == SelectSeq(dvp_rows, LAMBDA row : Strip(row.player) # <<>>)

\* C10: merge_and_score returns one Play per input row with a non-empty
\* player name, in input order; a play whose player is not resolved is
\* returned with recent_avg, games_played and mpg unknown and score 0; no
\* exception is raised.
C10_OnePlayPerRow ==
    /\ pc # "raised"
    /\ pc \in {"merged", "filtered"} =>
          /\ Len(Val(plays)) = Len(NamedRows)
          /\ \A k \in 1..Len(NamedRows) :
                LET p == Val(plays)[k]
                    row == NamedRows[k]
                IN  /\ p.player = Strip(row.player)
                    /\ p.stat = row.stat
                    /\ p.tier = row.tier
                    /\ Num(p.dvp_value) = row.opp_dvp_value
                    /\ Unresolved(row) =>
                          /\ p.recent_avg = None
                          /\ p.games_played = None
                          /\ p.mpg = None
                          /\ p.score = 0

\* an unnamed row was skipped and a row whose player is in no record of a
\* non-empty stats mapping was returned as a play
C10_Witness ==
    /\ pc = "merged"
    /\ stats_db # <<>>
    /\ Len(dvp_rows) > Len(Val(plays))
    /\ \E k \in 1..Len(NamedRows) :
          /\ Unresolved(NamedRows[k])
          /\ Val(plays)[k].player = <<"b", " ", "k">>
          /\ Val(plays)[k].recent_avg = None

(***************************************************************************)
(* Exact fractions, kept in lowest terms with a positive denominator       *)
(***************************************************************************)

Abs(x) == IF x < 0 THEN -x ELSE x

RECURSIVE Gcd(_, _)
Gcd(a, b) == IF b = 0 THEN a ELSE Gcd(b, a % b)

Frac(n, d) ==
    LET g == Gcd(Abs(n), Abs(d))
        sgn == IF d < 0 THEN -1 ELSE 1
    IN  [num |-> sgn * (n \div g), den |-> sgn * (d \div g)]

FInt(n) == [num |-> n, den |-> 1]
FAdd(a, b) == Frac(a.num * b.den + b.num * a.den, a.den * b.den)
FSub(a, b) == Frac(a.num * b.den - b.num * a.den, a.den * b.den)
FMul(a, b) == Frac(a.num * b.num, a.den * b.den)
FDiv(a, b) == Frac(a.num * b.den, a.den * b.num)
FNeg(a) == [num |-> -a.num, den |-> a.den]
FLt(a, b) == a.num * b.den < b.num * a.den
FLe(a, b) == a.num * b.den <= b.num * a.den
FMin(a, b) == IF FLe(a, b) THEN a ELSE b
FMax(a, b) == IF FLe(b, a) THEN a ELSE b

(***************************************************************************)
(* calculate_kelly (app.py)                                                *)
(***************************************************************************)

\* max(0, min(kelly_full, 0.25))
KellyClamp_m(kelly_full) == FMax(FInt(0), kelly_full)
KellyClamp(kelly_full) == FMax(FInt(0), FMin(kelly_full, Frac(1, 4)))

\* the percentages kelly_full * 100 and kelly_adjusted * 100
calculate_kelly(win_prob, decimal_odds, fraction) ==
    LET b == FSub(decimal_odds, FInt(1))
        p == win_prob
        q == FSub(FInt(1), p)
        raw == IF FLt(FInt(0), b) THEN FDiv(FSub(FMul(b, p), q), b) ELSE FInt(0)
        kelly_full == KellyClamp(raw)
        kelly_adjusted == FMul(kelly_full, fraction)
    IN  [kelly_full |-> FMul(kelly_full, FInt(100)),
         kelly_adjusted |-> FMul(kelly_adjusted, FInt(100)),
         fraction_used |-> fraction]

(***************************************************************************)
(* calculate_edge (app.py and prop_analyzer.py)                            *)
(***************************************************************************)

\* the if / elif chain on edge_pct: > 8, > 3, > -3, else
EdgeClass_m(edge_pct) ==
    IF FLe(FInt(8), edge_pct) THEN "strong"
    ELSE IF FLt(FInt(3), edge_pct) THEN "lean"
    ELSE IF FLt(FInt(-3), edge_pct) THEN "toss-up"
    ELSE "pass"
EdgeClass(edge_pct) ==
    IF FLt(FInt(8), edge_pct) THEN "strong"
    ELSE IF FLt(FInt(3), edge_pct) THEN "lean"
    ELSE IF FLt(FInt(-3), edge_pct) THEN "toss-up"
    ELSE "pass"

\* (diff / line) * 100 if line > 0 else 0; projected and line in tenths
EdgePct(projected, line) ==
    IF line > 0 THEN Frac((projected - line) * 100, line) ELSE FInt(0)

\* app.py: recommendation text (without the check marks) and colour per class
AppRecommendation(class, direction) ==
    CASE class = "strong"  -> [recommendation |-> "STRONG " \o direction, color |-> "green"]
      [] class = "lean"    -> [recommendation |-> "LEAN " \o direction, color |-> "blue"]
      [] class = "toss-up" -> [recommendation |-> "TOSS-UP", color |-> "orange"]
      [] OTHER             -> [recommendation |-> "PASS", color |-> "gray"]

\* app.py calculate_edge(projected, line, direction), numeric inputs
app_calculate_edge(projected, line, direction) ==
    IF line <= 0 \/ projected < 0
    THEN [edge_pct |-> FInt(0), recommendation |-> "Invalid line", color |-> "gray"]
    ELSE LET raw == EdgePct(projected, line)
             edge_pct == IF direction = "OVER" THEN raw ELSE FNeg(raw)
         IN  [edge_pct |-> edge_pct]
                @@ AppRecommendation(EdgeClass(edge_pct),
                                     IF direction = "OVER" THEN "OVER" ELSE "UNDER")

\* prop_analyzer.py: recommendation text (without the check marks)
AnalyzerRecommendation_m(class, tier) ==
    LET direction == IF tier = "WORST" THEN "OVER" ELSE "UNDER"
    IN  CASE class = "strong"  -> "STRONG " \o direction
          [] class = "lean"    -> "STRONG " \o direction
          [] class = "toss-up" -> "TOSS-UP"
          [] OTHER -> IF tier = "WORST" THEN "PASS (line too high)"
                      ELSE "PASS (line too low)"
AnalyzerRecommendation(class, tier) ==
    LET direction == IF tier = "WORST" THEN "OVER" ELSE "UNDER"
    IN  CASE class = "strong"  -> "STRONG " \o direction
          [] class = "lean"    -> "LEAN " \o direction
          [] class = "toss-up" -> "TOSS-UP"
          [] OTHER -> IF tier = "WORST" THEN "PASS (line too high)" ELSE "PASS (line too low)"

\* prop_analyzer.py calculate_edge(play, line)
analyzer_calculate_edge(play, line) ==
    IF play.projected = None /\ play.recent_avg = None
    THEN [edge_pct |-> None, recommendation |-> "NO DATA", projected |-> None]
    ELSE LET projected == IF play.projected = None THEN Val(play.recent_avg)
                          ELSE Val(play.projected)
             raw == EdgePct(projected, line)
             edge_pct == IF play.tier = "WORST" THEN raw ELSE FNeg(raw)
         IN  [edge_pct |-> Some(edge_pct),
              diff |-> projected - line,
              projected |-> Some(projected),
              recommendation |-> AnalyzerRecommendation(EdgeClass(edge_pct), play.tier)]

\* strong / lean / toss-up / pass of a recommendation text
ClassOf(recommendation) ==
    CASE recommendation \in {"STRONG OVER", "STRONG UNDER"} -> "strong"
      [] recommendation \in {"LEAN OVER", "LEAN UNDER"} -> "lean"
      [] recommendation = "TOSS-UP" -> "toss-up"
      [] recommendation \in {"PASS", "PASS (line too high)", "PASS (line too low)"} -> "pass"
      [] OTHER -> "none"

\* ---- inputs of the staking calculators
MaxProjected == 120

\* win probabilities in hundredths, decimal odds in hundredths
KellyProbs == { -10, 110 } \cup { 5 * k : k \in 0..20 }
KellyOdds == { -100, 0, 50, 100, 101, 150, 191, 200, 250, 300, 1000 }

\* projections and lines in tenths
EdgeProjected == -1..MaxProjected
EdgeLines == { -10, 0, 25, 100 }

EdgePlays ==
    { [Play(<<"A">>, "PTS", 248, t, r, Some(8), None) EXCEPT !.projected = pr] :
        t \in {"WORST", "BEST"},
        r \in {None, Some(100)},
        pr \in {None} \cup { Some(x) : x \in 0..MaxProjected } }

InitStaking ==
    /\ pc = "call"
    /\ ret = None /\ locals = None
    /\ dvp_rows = None /\ stats_db = None /\ plays = None /\ top_plays = None /\ picks_file = None
    /\ \/ /\ fn = "calculate_kelly"
          /\ args \in { [win_prob |-> Frac(p, 100), decimal_odds |-> Frac(d, 100),
                         fraction |-> Frac(1, 4)] : p \in KellyProbs, d \in KellyOdds }
       \/ /\ fn = "app.calculate_edge"
          /\ args \in { [projected |-> x, line |-> l, direction |-> d] :
                          x \in EdgeProjected, l \in EdgeLines, d \in {"OVER", "UNDER"} }
       \/ /\ fn = "prop_analyzer.calculate_edge"
          /\ args \in { [play |-> p, line |-> l] : p \in EdgePlays, l \in EdgeLines }

CalculateKelly ==
    /\ pc = "call"
    /\ fn = "calculate_kelly"
    /\ ret' = Some(calculate_kelly(args.win_prob, args.decimal_odds, args.fraction))
    /\ pc' = "done"
    /\ UNCHANGED <<fn, args, locals, mainVars>>

CalculateEdge ==
    /\ pc = "call"
    /\ fn = "app.calculate_edge"
    /\ ret' = Some(app_calculate_edge(args.projected, args.line, args.direction))
    /\ pc' = "done"
    /\ UNCHANGED <<fn, args, locals, mainVars>>

AnalyzerCalculateEdge ==
    /\ pc = "call"
    /\ fn = "prop_analyzer.calculate_edge"
    /\ ret' = Some(analyzer_calculate_edge(args.play, args.line))
    /\ pc' = "done"
    /\ UNCHANGED <<fn, args, locals, mainVars>>

NextStaking == CalculateKelly \/ CalculateEdge \/ AnalyzerCalculateEdge

SpecStaking == InitStaking /\ [][NextStaking]_vars

KellyDone == pc = "done" /\ fn = "calculate_kelly"

\* C4: the full Kelly fraction lies in [0, 0.25], reported as 0 to 25
\* percent, for any (win_prob, decimal_odds), and is 0 for decimal_odds <= 1.
C4_KellyRange ==
    KellyDone =>
        /\ FLe(FInt(0), Val(ret).kelly_full)
        /\ FLe(Val(ret).kelly_full, FInt(25))
        /\ FLe(args.decimal_odds, FInt(1)) => Val(ret).kelly_full = FInt(0)

\* the upper clamp acts: the unclamped Kelly fraction (b p - q) / b exceeds 0.25
C4_Witness ==
    /\ KellyDone
    /\ FLt(FInt(1), args.decimal_odds)
    /\ LET b == FSub(args.decimal_odds, FInt(1))
       IN  FLt(FMul(Frac(1, 4), b),
               FSub(FMul(b, args.win_prob), FSub(FInt(1), args.win_prob)))
    /\ Val(ret).kelly_full = FInt(25)

\* the class the claim assigns to a direction-adjusted edge of num / den percent
ClaimedClass(num, den) ==
    IF num > 8 * den THEN "strong"
    ELSE IF num > 3 * den THEN "lean"
    ELSE IF num > -3 * den THEN "toss-up"
    ELSE "pass"

\* C7: both calculate_edge functions return the direction-adjusted edge
\* e = ((projected - line) / line) * 100 (sign flipped for UNDER) and class it
\* strong for e > 8, lean for 3 < e <= 8, toss-up for -3 < e <= 3, pass for
\* e <= -3; e = 9, 5, 0, -5 give strong, lean, toss-up, pass.
C7_EdgeClasses ==
    /\ (pc = "done" /\ fn = "app.calculate_edge" /\ args.line > 0 /\ args.projected >= 0) =>
          LET sign == IF args.direction = "OVER" THEN 1 ELSE -1
              num == sign * (args.projected - args.line) * 100
          IN  /\ Val(ret).edge_pct.num * args.line = num * Val(ret).edge_pct.den
              /\ ClassOf(Val(ret).recommendation) = ClaimedClass(num, args.line)
    /\ (pc = "done" /\ fn = "prop_analyzer.calculate_edge" /\ args.line > 0
            /\ args.play.projected # None) =>
          LET sign == IF args.play.tier = "WORST" THEN 1 ELSE -1
              num == sign * (Val(args.play.projected) - args.line) * 100
          IN  /\ Val(Val(ret).edge_pct).num * args.line = num * Val(Val(ret).edge_pct).den
              /\ ClassOf(Val(ret).recommendation) = ClaimedClass(num, args.line)
    /\ (pc = "done" /\ fn = "app.calculate_edge" /\ args.line = 100
            /\ args.direction = "OVER") =>
          /\ args.projected = 109 => ClassOf(Val(ret).recommendation) = "strong"
          /\ args.projected = 105 => ClassOf(Val(ret).recommendation) = "lean"
          /\ args.projected = 100 => ClassOf(Val(ret).recommendation) = "toss-up"
          /\ args.projected = 95 => ClassOf(Val(ret).recommendation) = "pass"

\* an UNDER edge of exactly 8 percent (projected 9.2 against a line of 10.0)
C7_Witness ==
    /\ pc = "done"
    /\ fn = "app.calculate_edge"
    /\ args.direction = "UNDER"
    /\ args.line = 100
    /\ args.projected = 92
    /\ Val(ret).edge_pct = FInt(8)
    /\ Val(ret).recommendation = "LEAN UNDER"

(***************************************************************************)
(* odds conversion, win probability and stake sizing (app.py)              *)
(***************************************************************************)

\* None stands for the ZeroDivisionError of 100 / abs(0)
american_to_decimal_m(american_odds) ==
    IF american_odds = 0 THEN None
    ELSE Some(FAdd(Frac(Abs(american_odds), 100), FInt(1)))
american_to_decimal(american_odds) ==
    IF american_odds > 0 THEN Some(FAdd(Frac(american_odds, 100), FInt(1)))
    ELSE IF Abs(american_odds) = 0 THEN None
    ELSE Some(FAdd(Frac(100, Abs(american_odds)), FInt(1)))

decimal_to_implied_prob(decimal_odds) ==
    IF FLe(decimal_odds, FInt(0)) THEN Frac(1, 2) ELSE FDiv(FInt(1), decimal_odds)

\* max(0.45, min(0.75, prob))
WinProbClamp_m(prob) == FMax(Frac(45, 100), prob)
WinProbClamp(prob) == FMax(Frac(45, 100), FMin(Frac(75, 100), prob))

estimate_win_probability(edge_pct, base_prob) ==
    LET prob_boost == FMul(edge_pct, Frac(5, 1000))
    IN  WinProbClamp(FAdd(base_prob, prob_boost))

\* bankroll * (kelly['kelly_adjusted'] / 100) if bankroll > 0 else 0
KellyBet_m(bankroll, kelly) == FMul(FInt(bankroll), FDiv(kelly.kelly_full, FInt(100)))
KellyBet(bankroll, kelly) ==
    IF bankroll > 0 THEN FMul(FInt(bankroll), FDiv(kelly.kelly_adjusted, FInt(100)))
    ELSE FInt(0)

\* the sizing of one analysed line: odds to decimal odds, edge to win
\* probability, Kelly at a quarter, stake from the bankroll
SizeBet(odds, edge_pct, bankroll) ==
    LET decimal_odds == american_to_decimal(odds)
    IN  IF decimal_odds = None THEN None
        ELSE LET implied_prob == decimal_to_implied_prob(Val(decimal_odds))
                 win_prob == estimate_win_probability(edge_pct, Frac(1, 2))
                 kelly == calculate_kelly(win_prob, Val(decimal_odds), Frac(1, 4))
             IN  Some([decimal_odds |-> Val(decimal_odds),
                       implied_prob |-> implied_prob,
                       win_prob |-> win_prob,
                       kelly |-> kelly,
                       kelly_bet |-> KellyBet(bankroll, kelly)])

\* ---- inputs of the odds and sizing calculators
MaxOddsSteps == 40

\* American odds as the number input gives them, in steps of 5
AmericanOdds == { 5 * k : k \in -MaxOddsSteps..MaxOddsSteps }

\* decimal odds in hundredths
DecimalOdds == { -100, -1, 0, 1, 50, 100, 150, 191, 200, 250, 400 }

\* edge percentages in halves of a percent
MaxEdge == 120
EdgePcts == { Frac(e, 2) : e \in -60..MaxEdge }

Bankrolls == { 0, 50, 500 }

StakingFractions == { Frac(1, 4), Frac(1, 2), FInt(1) }

InitOdds ==
    /\ pc = "call"
    /\ ret = None /\ locals = None
    /\ dvp_rows = None /\ stats_db = None /\ plays = None /\ top_plays = None /\ picks_file = None
    /\ \/ /\ fn = "american_to_decimal"
          /\ args \in { [american_odds |-> o] : o \in AmericanOdds }
       \/ /\ fn = "decimal_to_implied_prob"
          /\ args \in { [decimal_odds |-> Frac(d, 100)] : d \in DecimalOdds }
       \/ /\ fn = "estimate_win_probability"
          /\ args \in { [edge_pct |-> e, base_prob |-> Frac(1, 2)] : e \in EdgePcts }
       \/ /\ fn = "calculate_kelly"
          /\ args \in { [win_prob |-> Frac(p, 100), decimal_odds |-> Frac(d, 100),
                         fraction |-> f] :
                          p \in {45, 60, 75}, d \in DecimalOdds, f \in StakingFractions }
       \/ /\ fn = "main.kelly_bet"
          /\ args \in { [odds |-> o, edge_pct |-> e, bankroll |-> b] :
                          o \in {-300, -110, -5, 0, 5, 100, 150},
                          e \in {FInt(-20), FInt(0), FInt(4), FInt(9), FInt(60)},
                          b \in Bankrolls }

AmericanToDecimal ==
    /\ pc = "call"
    /\ fn = "american_to_decimal"
    /\ ret' = american_to_decimal(args.american_odds)
    /\ pc' = IF ret' = None THEN "raised" ELSE "done"
    /\ UNCHANGED <<fn, args, locals, mainVars>>

DecimalToImpliedProb ==
    /\ pc = "call"
    /\ fn = "decimal_to_implied_prob"
    /\ ret' = Some(decimal_to_implied_prob(args.decimal_odds))
    /\ pc' = "done"
    /\ UNCHANGED <<fn, args, locals, mainVars>>

EstimateWinProbability ==
    /\ pc = "call"
    /\ fn = "estimate_win_probability"
    /\ ret' = Some(estimate_win_probability(args.edge_pct, args.base_prob))
    /\ pc' = "done"
    /\ UNCHANGED <<fn, args, locals, mainVars>>

\* the Kelly lines of the line analyzer; int(odds) = 0 raises in american_to_decimal
MainKellyBet ==
    /\ pc = "call"
    /\ fn = "main.kelly_bet"
    /\ ret' = SizeBet(args.odds, args.edge_pct, args.bankroll)
    /\ pc' = IF ret' = None THEN "raised" ELSE "done"
    /\ UNCHANGED <<fn, args, locals, mainVars>>

NextOdds ==
    \/ AmericanToDecimal
    \/ DecimalToImpliedProb
    \/ EstimateWinProbability
    \/ CalculateKelly
    \/ MainKellyBet

SpecOdds == InitOdds /\ [][NextOdds]_vars

\* C11: for zero or otherwise invalid odds (American odds 0, decimal odds
\* <= 0) american_to_decimal and decimal_to_implied_prob never raise and
\* give the neutral default, an implied probability of 0.5.
C11_NeutralDefault ==
    /\ (fn = "american_to_decimal" /\ args.american_odds = 0 /\ pc # "call") =>
          /\ pc = "done"
          /\ decimal_to_implied_prob(Val(ret)) = Frac(1, 2)
    /\ (fn = "decimal_to_implied_prob" /\ FLe(args.decimal_odds, FInt(0)) /\ pc # "call") =>
          /\ pc = "done"
          /\ Val(ret) = Frac(1, 2)

\* the half of C11 about decimal_to_implied_prob alone
C11_DecimalGuard ==
    (fn = "decimal_to_implied_prob" /\ FLe(args.decimal_odds, FInt(0)) /\ pc # "call") =>
        pc = "done" /\ Val(ret) = Frac(1, 2)

WinProbDone == pc = "done" /\ fn = "estimate_win_probability"

\* C16: estimate_win_probability(edge_pct) is 0.50 + 0.005 * edge_pct clamped
\* to [0.45, 0.75]: always within the band, 0.45 for edge_pct <= -10, 0.75 for
\* edge_pct >= 50, and non-decreasing in edge_pct.
C16_WinProbBand ==
    WinProbDone =>
        LET e == args.edge_pct
            p == Val(ret)
            linear == FAdd(Frac(1, 2), FMul(Frac(5, 1000), e))
        IN  /\ FLe(Frac(45, 100), p) /\ FLe(p, Frac(75, 100))
            /\ (FLe(Frac(45, 100), linear) /\ FLe(linear, Frac(75, 100))) => p = linear
            /\ FLe(e, FInt(-10)) => p = Frac(45, 100)
            /\ FLe(FInt(50), e) => p = Frac(75, 100)
            /\ \A e2 \in EdgePcts :
                  FLe(e, e2) => FLe(p, estimate_win_probability(e2, args.base_prob))

\* the upper clamp acts: 0.50 + 0.005 * 60 = 0.80 comes back as 0.75
C16_Witness ==
    /\ WinProbDone
    /\ args.edge_pct = FInt(60)
    /\ Val(ret) = Frac(3, 4)

\* C17: kelly_adjusted = kelly_full * staking fraction and the suggested stake
\* is bankroll * kelly_adjusted; the stake is never negative, never above
\* 0.25 * staking fraction of the bankroll, and 0 when the bankroll is <= 0.
C17_StakeBounds ==
    /\ (pc = "done" /\ fn = "calculate_kelly") =>
          /\ Val(ret).kelly_adjusted = FMul(Val(ret).kelly_full, args.fraction)
          /\ FLe(FInt(0), Val(ret).kelly_adjusted)
          /\ FLe(Val(ret).kelly_adjusted, FMul(FInt(25), args.fraction))
    /\ (pc = "done" /\ fn = "main.kelly_bet") =>
          LET kelly == Val(ret).kelly
              kelly_bet == Val(ret).kelly_bet
          IN  /\ kelly.kelly_adjusted = FMul(kelly.kelly_full, kelly.fraction_used)
              /\ kelly_bet = FMul(FInt(args.bankroll), FDiv(kelly.kelly_adjusted, FInt(100)))
              /\ FLe(FInt(0), kelly_bet)
              /\ FLe(kelly_bet, FMul(FInt(args.bankroll), FMul(Frac(1, 4), kelly.fraction_used)))
              /\ FLe(kelly_bet, FMul(FInt(args.bankroll), Frac(625, 10000)))
              /\ args.bankroll <= 0 => kelly_bet = FInt(0)

\* the largest stake: full Kelly clamped at 25 percent, a quarter of it of a
\* bankroll of 500 is 31.25
C17_Witness ==
    /\ pc = "done"
    /\ fn = "main.kelly_bet"
    /\ args.bankroll = 500
    /\ Val(ret).kelly.kelly_full = FInt(25)
    /\ Val(ret).kelly_bet = Frac(125, 4)

(***************************************************************************)
(* merge_and_score on shortlist rows whose opp_dvp_value is not a number   *)
(***************************************************************************)

\* rows of a shortlist file with a numeric, an empty, a non-numeric and an
\* absent opp_dvp_value column
MalformedRows ==
    { [player |-> pl, stat |-> "PTS", opp_dvp_value |-> d, tier |-> "WORST"] :
        pl \in { <<>>, <<"J", " ", "S">> }, d \in { Num(248), Blank, Text } }
    \cup { [player |-> pl, stat |-> "PTS", tier |-> "WORST"] :
             pl \in { <<>>, <<"J", " ", "S">> } }

InitMalformed ==
    /\ pc = "loaded"
    /\ fn = "main"
    /\ args = None /\ ret = None /\ locals = None
    /\ dvp_rows \in SeqsUpTo(MalformedRows, MaxRows)
    /\ stats_db \in StatsDbs
    /\ plays = None
    /\ top_plays = None /\ picks_file = None

SpecMalformed == InitMalformed /\ [][Next]_vars

\* C12: merge_and_score never raises on a missing, blank or non-numeric
\* numeric field of a row or stats record (opp_dvp_value, games, mpg, the stat
\* average): every named row is still returned as a play, the affected value
\* unknown or neutral, with score 0 when the play cannot be scored.
C12_NeverRaises ==
    /\ pc # "raised"
    /\ pc \in {"merged", "filtered"} =>
          /\ Len(Val(plays)) = Len(NamedRows)
          /\ \A k \in 1..Len(NamedRows) :
                LET p == Val(plays)[k]
                    row == NamedRows[k]
                IN  /\ p.player = Strip(row.player)
                    /\ RowDvp(row) \in {None, Some(p.dvp_value)}
                    /\ Unscorable(p) => p.score = 0

\* the part of C12 about the stats record: with a blank or non-numeric
\* games, mpg or stat average the play is returned, the value unknown
C12_StatsRecordTolerated ==
    (pc = "merged" /\ stats_db # <<>>) =>
        \A k \in 1..Len(Val(plays)) :
            LET p == Val(plays)[k]
                stats == stats_db[1].stats
            IN  /\ Get(stats, "games") \in {Blank, Text, Missing} => p.games_played = None
                /\ Get(stats, "mpg") \in {Blank, Text, Missing} => p.mpg = None
                /\ Get(stats, "pts") \in {Blank, Text, Missing} => p.recent_avg = None

(***************************************************************************)
(* calculate_projection and score_play called on their own                 *)
(***************************************************************************)

MaxGames == 8

\* averages, ratings and minutes in tenths
ScoreRecents == { 0, 50, 121, 280 }
ScoreDvps == { -10, 0, 12, 248 }
ScoreMpgs == { None, Some(0), Some(310), Some(480), Some(520) }
ScoreGames == { None } \cup { Some(g) : g \in 0..MaxGames }
ScoreTiers == { "WORST", "BEST", "MID" }

ScorePlays ==
    { Play(<<"A">>, "PTS", d, t, r, g, mpg) :
        d \in ScoreDvps, t \in ScoreTiers,
        r \in { None } \cup { Some(x) : x \in ScoreRecents },
        g \in ScoreGames, mpg \in ScoreMpgs }

InitScoring ==
    /\ pc = "call"
    /\ ret = None /\ locals = None
    /\ dvp_rows = None /\ stats_db = None /\ plays = None /\ top_plays = None /\ picks_file = None
    /\ \/ /\ fn = "calculate_projection"
          /\ args \in { [recent_avg |-> r, dvp_value |-> d, tier |-> t, player_mpg |-> mpg] :
                          r \in ScoreRecents, d \in ScoreDvps, t \in ScoreTiers,
                          mpg \in ScoreMpgs }
       \/ /\ fn = "score_play"
          /\ args \in { [play |-> p] : p \in ScorePlays }

CalculateProjection ==
    /\ pc = "call"
    /\ fn = "calculate_projection"
    /\ ret' = Some(calculate_projection(args.recent_avg, args.dvp_value, args.tier,
                                        args.player_mpg))
    /\ pc' = "done"
    /\ UNCHANGED <<fn, args, locals, mainVars>>

\* the play as score_play leaves it, its score field holding the value returned
ScorePlay ==
    /\ pc = "call"
    /\ fn = "score_play"
    /\ ret' = Some(score_play(args.play))
    /\ pc' = "done"
    /\ UNCHANGED <<fn, args, locals, mainVars>>

NextScoring == CalculateProjection \/ ScorePlay

SpecScoring == InitScoring /\ [][NextScoring]_vars

\* round(x, 1) of an exact fraction, in tenths
RoundTenths(x) == RoundHalfEven(x.num * 10, x.den)

\* the minutes share the claims state: min(mpg / 48, 1), 30 / 48 when unknown
ClaimedShare(mpg) ==
    IF mpg = None \/ Val(mpg) <= 0 THEN Frac(30, 48)
    ELSE FMin(Frac(Val(mpg), 480), FInt(1))

\* C13: calculate_projection returns round(0.6 * recent_avg + 0.4 *
\* adjusted_dvp, 1) with adjusted_dvp = dvp_value * min(mpg / 48, 1), the
\* share 30 / 48 when minutes are unknown (None or <= 0) and a share of 1
\* above 48 minutes; recent 28.0, dvp 24.8, 31 minutes give adjusted_dvp 16.0
\* and projected 23.2.
C13_Projection ==
    /\ (pc = "done" /\ fn = "calculate_projection") =>
          LET adjusted_dvp == FMul(Frac(args.dvp_value, 10), ClaimedShare(args.player_mpg))
              projected == FAdd(FMul(Frac(6, 10), Frac(args.recent_avg, 10)),
                                FMul(Frac(4, 10), adjusted_dvp))
          IN  /\ Val(ret) = RoundTenths(projected)
              /\ (args.recent_avg = 280 /\ args.dvp_value = 248
                    /\ args.player_mpg = Some(310)) => Val(ret) = 232
    /\ (pc = "done" /\ fn = "score_play" /\ Scorable(args.play)) =>
          LET p == args.play
          IN  /\ Val(ret).projected =
                    Some(calculate_projection(Val(p.recent_avg), p.dvp_value, p.tier, p.mpg))
              /\ Val(ret).adjusted_dvp =
                    Some(RoundTenths(FMul(Frac(p.dvp_value, 10), ClaimedShare(p.mpg))))
              /\ (p.recent_avg = Some(280) /\ p.dvp_value = 248 /\ p.mpg = Some(310)) =>
                    /\ Val(ret).adjusted_dvp = Some(160)
                    /\ Val(ret).projected = Some(232)

\* 52 minutes count as a share of 1: the projection is 0.6 * 28.0 + 0.4 * 24.8
C13_Witness ==
    /\ pc = "done"
    /\ fn = "calculate_projection"
    /\ args.recent_avg = 280
    /\ args.dvp_value = 248
    /\ args.player_mpg = Some(520)
    /\ Val(ret) = 267

\* C14: a scorable WORST play scores round(performance_ratio * games_factor *
\* 100, 1) with performance_ratio = recent_avg / dvp_value (1.0 when dvp_value
\* <= 0) and games_factor = min(games_played / 5, 1.0); beyond 5 games the
\* score does not grow; recent 28.0, dvp 24.8, 8 games give 112.9.
C14_OverScore ==
    (pc = "done" /\ fn = "score_play" /\ Scorable(args.play) /\ args.play.tier = "WORST") =>
        LET r == Val(args.play.recent_avg)
            d == args.play.dvp_value
            g == Val(args.play.games_played)
            performance_ratio == IF d <= 0 THEN FInt(1) ELSE Frac(r, d)
            games_factor == FMin(Frac(g, 5), FInt(1))
        IN  /\ Val(ret).score =
                  RoundTenths(FMul(FMul(performance_ratio, games_factor), FInt(100)))
            /\ g >= 5 =>
                  Val(ret).score = ScoreOf([args.play EXCEPT !.games_played = Some(5)])
            /\ (r = 280 /\ d = 248 /\ g = 8) => Val(ret).score = 1129

\* the example of the claim: 8 games score as 5 do
C14_Witness ==
    /\ pc = "done"
    /\ fn = "score_play"
    /\ args.play.tier = "WORST"
    /\ args.play.recent_avg = Some(280)
    /\ args.play.dvp_value = 248
    /\ args.play.games_played = Some(8)
    /\ Val(ret).score = 1129

UnderDone ==
    pc = "done" /\ fn = "score_play" /\ Scorable(args.play) /\ args.play.tier = "BEST"

\* C15: a scorable BEST play scores performance_ratio * games_factor * 100
\* with performance_ratio = dvp_value / max(recent_avg, 0.1) for every
\* dvp_value, with no separate guard; a BEST play with dvp_value = 0 scores 0.
C15_UnguardedRatio ==
    UnderDone =>
        LET r == Val(args.play.recent_avg)
            d == args.play.dvp_value
            g == Val(args.play.games_played)
            performance_ratio == Frac(d, Max(r, 1))
            games_factor == FMin(Frac(g, 5), FInt(1))
        IN  /\ Val(ret).score =
                  RoundTenths(FMul(FMul(performance_ratio, games_factor), FInt(100)))
            /\ d = 0 => Val(ret).score = 0

\* C15 as the code has it: the ratio dvp_value / max(recent_avg, 0.1) is used
\* when dvp_value > 0; for dvp_value <= 0 the ratio is 1.0, so a BEST play
\* with dvp_value = 0 scores games_factor * 100.
C15_GuardedRatio ==
    UnderDone =>
        LET r == Val(args.play.recent_avg)
            d == args.play.dvp_value
            g == Val(args.play.games_played)
            performance_ratio == IF d > 0 THEN Frac(d, Max(r, 1)) ELSE FInt(1)
            games_factor == FMin(Frac(g, 5), FInt(1))
        IN  /\ Val(ret).score =
                  RoundTenths(FMul(FMul(performance_ratio, games_factor), FInt(100)))
            /\ d = 0 => Val(ret).score = RoundTenths(FMul(games_factor, FInt(100)))

\* a BEST play with dvp_value 0 and 8 games scores 100.0
C15_Witness ==
    /\ UnderDone
    /\ args.play.dvp_value = 0
    /\ args.play.games_played = Some(8)
    /\ Val(ret).score = 1000

(***************************************************************************)
(* get_game_pace_factor (app.py)                                           *)
(***************************************************************************)

\* possessions per 48 minutes, in tenths
TEAM_PACE ==
    [IND |-> 1035, ATL |-> 1028, MIL |-> 1025, SAC |-> 1023, NOP |-> 1020,
     DEN |-> 1018, MIN |-> 1015, DAL |-> 1013, PHX |-> 1010, BOS |-> 1008,
     LAL |-> 1005, GSW |-> 1003, CHI |-> 1002, TOR |-> 1000, WAS |-> 1000,
     BKN |-> 998, POR |-> 997, UTA |-> 995, ORL |-> 993, DET |-> 992,
     HOU |-> 990, SAS |-> 988, PHI |-> 985, MIA |-> 983, NYK |-> 980,
     LAC |-> 978, MEM |-> 975, OKC |-> 973, CLE |-> 970, CHA |-> 968]

LEAGUE_AVG_PACE == 1000

\* str.upper() on the team spellings used by the inputs
UpperTeam(team) ==
    CASE team = "ind" -> "IND"
      [] team = "tor" -> "TOR"
      [] team = "xxx" -> "XXX"
      [] OTHER -> team

\* TEAM_PACE.get(team, LEAGUE_AVG_PACE)
PaceOf_m(team) == IF team \in DOMAIN TEAM_PACE THEN TEAM_PACE[team] ELSE 0
PaceOf(team) == IF team \in DOMAIN TEAM_PACE THEN TEAM_PACE[team] ELSE LEAGUE_AVG_PACE

\* round() of the float nearest to num / den: the nearest integer, and either
\* neighbour where the exact value is a tie, since the float can lie on
\* either side of it
RoundChoices(num, den) ==
    LET q == num \div den
        r == num - q * den
    IN  IF 2 * r < den THEN {q}
        ELSE IF 2 * r > den THEN {q + 1}
        ELSE {q, q + 1}

PaceTier(pace_diff) ==
    IF FLe(FInt(2), pace_diff) THEN "fast"
    ELSE IF FLe(pace_diff, FInt(-2)) THEN "slow"
    ELSE "average"

\* the records get_game_pace_factor can return: expected_pace and pace_diff
\* in tenths, adjustment_pct in thousandths
get_game_pace_factor(team1, team2) ==
    LET pace1 == PaceOf(UpperTeam(team1))
        pace2 == PaceOf(UpperTeam(team2))
        expected_pace == Frac(pace1 + pace2, 20)
        pace_diff == FSub(expected_pace, Frac(LEAGUE_AVG_PACE, 10))
        adjustment_pct == FMul(pace_diff, Frac(1, 100))
    IN  { [expected_pace |-> e, pace_diff |-> d, adjustment_pct |-> a,
           tier |-> PaceTier(pace_diff), team1_pace |-> pace1, team2_pace |-> pace2] :
            e \in RoundChoices(expected_pace.num * 10, expected_pace.den),
            d \in RoundChoices(pace_diff.num * 10, pace_diff.den),
            a \in RoundChoices(adjustment_pct.num * 1000, adjustment_pct.den) }

(***************************************************************************)
(* get_injury_boost_info (app.py)                                          *)
(***************************************************************************)

\* float(stats.get(col, 0) or 0), in tenths: None where float() raises
UsageCell(stats, col) ==
    LET cell == Get(stats, col)
    IN  IF cell = Missing \/ cell = Blank THEN Some(0) ELSE ParseFloat(cell)

\* the stats of the first key of the mapping with inj_name in key or key in
\* inj_name (the inner loop breaks there), None when no key matches
FirstMatch(inj_name, db) ==
    LET hits == { i \in 1..Len(db) : SubstringMatch(inj_name, db[i].key) }
    IN  IF hits = {} THEN None
        ELSE Some(db[CHOOSE i \in hits : \A j \in hits : i <= j].stats)

\* float() of a pts, ast or reb cell of the matched record raises ValueError
UsageRaises(inj, db) ==
    LET stats == FirstMatch(Lower(inj.player), db)
    IN  /\ stats # None
        /\ \E col \in {"pts", "ast", "reb"} : UsageCell(Val(stats), col) = None

\* usage = pts + ast + reb of the matched record, None when no key matches
UsageOf(inj, db) ==
    LET stats == FirstMatch(Lower(inj.player), db)
    IN  IF stats = None THEN None
        ELSE Some(Val(UsageCell(Val(stats), "pts")) + Val(UsageCell(Val(stats), "ast"))
                    + Val(UsageCell(Val(stats), "reb")))

\* if usage >= 25
IsKeyInjury(inj, db) == UsageOf(inj, db) # None /\ Val(UsageOf(inj, db)) >= 250

\* key_injuries, in the order of injured_teammates
KeyInjuries(injured_teammates, db) ==
    LET keys == SelectSeq(injured_teammates, LAMBDA inj : IsKeyInjury(inj, db))
    IN  [ k \in 1..Len(keys) |->
            [player |-> keys[k].player, position |-> keys[k].position,
             usage |-> Val(UsageOf(keys[k], db))] ]

RECURSIVE SumUsage(_)
SumUsage(key_injuries) ==
    IF key_injuries = <<>> THEN 0
    ELSE key_injuries[1].usage + SumUsage(Tail(key_injuries))

\* min(0.08 + (total_out_usage - 25) * 0.002, 0.15), total_out_usage in tenths
BoostPct_m(total_out_usage) ==
    FAdd(Frac(8, 100), FMul(FSub(Frac(total_out_usage, 10), FInt(25)), Frac(2, 1000)))
BoostPct(total_out_usage) ==
    FMin(FAdd(Frac(8, 100), FMul(FSub(Frac(total_out_usage, 10), FInt(25)), Frac(2, 1000))),
         Frac(15, 100))

\* the loop reaches a float() that raises
InjuryRaises(player_team, db, injured_by_team) ==
    /\ player_team \in DOMAIN injured_by_team
    /\ \E i \in 1..Len(injured_by_team[player_team]) :
          UsageRaises(injured_by_team[player_team][i], db)

\* the returned value when nothing raises: None, or Some(record)
get_injury_boost_info(player_team, db, injured_by_team) ==
    IF player_team \notin DOMAIN injured_by_team THEN None
    ELSE LET injured_teammates == injured_by_team[player_team]
             key_injuries == KeyInjuries(injured_teammates, db)
         IN  IF injured_teammates = <<>> THEN None
             ELSE IF key_injuries = <<>>
                  THEN Some([minor |-> injured_teammates, key |-> <<>>, boost_pct |-> FInt(0)])
                  ELSE Some([minor |-> injured_teammates, key |-> key_injuries,
                             boost_pct |-> BoostPct(SumUsage(key_injuries))])

(***************************************************************************)
(* the line analyzer of main(): adjustments, projection, edge (app.py)     *)
(***************************************************************************)

\* calculate_edge on a projection that is no longer a multiple of 0.1
\* (projected a fraction of tenths, line in tenths)
calculate_edge_adjusted(projected, line, direction) ==
    IF line <= 0 \/ FLt(projected, FInt(0))
    THEN [edge_pct |-> FInt(0), recommendation |-> "Invalid line", color |-> "gray"]
    ELSE LET raw == FMul(FDiv(FSub(projected, FInt(line)), FInt(line)), FInt(100))
             edge_pct == IF direction = "OVER" THEN raw ELSE FNeg(raw)
         IN  [edge_pct |-> edge_pct]
                @@ AppRecommendation(EdgeClass(edge_pct),
                                     IF direction = "OVER" THEN "OVER" ELSE "UNDER")

\* is_b2b = play.team.upper() in b2b_teams or play.team in b2b_teams
IsB2b(team, b2b_teams) == UpperTeam(team) \in b2b_teams \/ team \in b2b_teams

\* injury_boost_pct: the boost only of an info that lists a key absence
InjuryBoostPct(injury_info) ==
    IF injury_info # None /\ Val(injury_info).key # <<>>
    THEN Val(injury_info).boost_pct
    ELSE FInt(0)

\* adjusted_proj = base_proj * (1 + total_adjustment) if total_adjustment != 0 else base_proj
AdjustedProj_m(base_proj, total_adjustment) == FInt(base_proj)
AdjustedProj(base_proj, total_adjustment) ==
    IF total_adjustment # FInt(0)
    THEN FMul(FInt(base_proj), FAdd(FInt(1), total_adjustment))
    ELSE FInt(base_proj)

\* factors 1 to 4 of the play quality score: score, games, minutes, exposure
QualityOfPlay(play, total_exposure) ==
    (IF play.score >= 800 THEN 2 ELSE IF play.score >= 600 THEN 1 ELSE 0)
    + (IF play.games_played # None /\ Val(play.games_played) >= 5 THEN 1
       ELSE IF play.games_played # None /\ Val(play.games_played) >= 3 THEN 0
       ELSE -1)
    + (IF play.mpg = None \/ Val(play.mpg) = 0 THEN 0
       ELSE IF Val(play.mpg) >= 300 THEN 1
       ELSE IF Val(play.mpg) >= 250 THEN 0
       ELSE -1)
    + (IF total_exposure >= 4 THEN -2 ELSE IF total_exposure >= 3 THEN -1 ELSE 0)

\* factors 5 to 7: back-to-back, key injury, game pace
QualityOfContext(direction, is_b2b, injury_info, pace_info) ==
    (IF is_b2b THEN (IF direction = "OVER" THEN -1 ELSE 1) ELSE 0)
    + (IF injury_info # None /\ Val(injury_info).key # <<>>
       THEN (IF direction = "OVER" THEN 1 ELSE -1)
       ELSE 0)
    + (IF pace_info.tier = "fast" THEN (IF direction = "OVER" THEN 1 ELSE -1)
       ELSE IF pace_info.tier = "slow" THEN (IF direction = "OVER" THEN -1 ELSE 1)
       ELSE 0)

\* one evaluation of a play in the line analyzer, given what
\* get_game_pace_factor and get_injury_boost_info returned
AnalyzeLineWith(play, direction, line, total_exposure, b2b_teams, pace_info, injury_info) ==
    LET is_b2b == IsB2b(play.team, b2b_teams)
        pace_adjustment == Frac(pace_info.adjustment_pct, 1000)
        injury_boost_pct == InjuryBoostPct(injury_info)
        base_proj == IF play.projected # None THEN Val(play.projected) ELSE 0
        total_adjustment == FAdd(injury_boost_pct, pace_adjustment)
        adjusted_proj == AdjustedProj(base_proj, total_adjustment)
        has_edge == play.projected # None /\ Val(play.projected) # 0 /\ line > 0
        proj_for_edge == IF total_adjustment # FInt(0) THEN adjusted_proj
                         ELSE FInt(base_proj)
    IN  [is_b2b |-> is_b2b,
         pace_info |-> pace_info,
         injury_info |-> injury_info,
         total_adjustment |-> total_adjustment,
         adjusted_proj |-> adjusted_proj,
         quality_score |-> QualityOfPlay(play, total_exposure)
                             + QualityOfContext(direction, is_b2b, injury_info, pace_info),
         proj_for_edge |-> IF has_edge THEN Some(proj_for_edge) ELSE None,
         result |-> IF has_edge
                    THEN Some(calculate_edge_adjusted(proj_for_edge, line, direction))
                    ELSE None]

\* ---- inputs of the contextual signals and of the line analyzer
MaxOut == 3

PaceTeams == { "IND", "ind", "TOR", "LAL", "CHA", "CLE", "HOU", "XXX", "xxx" }

OutPlayer(name) == [player |-> name, position |-> "G"]

\* "J S", "b k", "A Q" and "z", who is in no stats file
OutPlayers ==
    { OutPlayer(<<"J", " ", "S">>), OutPlayer(<<"b", " ", "k">>),
      OutPlayer(<<"A", " ", "Q">>), OutPlayer(<<"z">>) }

UsageRow(name, pts, reb, ast) ==
    [key |-> name, stats |-> [player |-> name, pts |-> pts, reb |-> reb, ast |-> ast]]

\* usages 25.0, 45.0 and 24.9; a record with only points (40.0) and an empty
\* rebounds cell; a record with a non-numeric cell
InjuryDbFull ==
    << UsageRow(KeyJS, Num(150), Num(50), Num(50)),
       UsageRow(KeyBK, Num(300), Num(100), Num(50)),
       UsageRow(<<"a", " ", "q">>, Num(200), Num(49), Num(0)) >>

InjuryDbText == << UsageRow(KeyJS, Num(150), Num(50), Num(50)),
                   UsageRow(<<"a", " ", "q">>, Text, Num(49), Num(0)) >>

InjuryDbs ==
    { <<>>, InjuryDbFull, InjuryDbText,
      << [key |-> KeyJS, stats |-> [player |-> KeyJS, pts |-> Num(400), reb |-> Blank]] >> }

\* get_injured_players_by_team(): OUT players of today's lineups by team
InjuredByTeam ==
    { EmptyDict } \cup { ("IND" :> l) : l \in SeqsUpTo(OutPlayers, MaxOut) \ { <<>> } }

AnalyzerPlays ==
    { [team |-> t, opponent |-> o, projected |-> pr, score |-> 1129,
       games_played |-> Some(8), mpg |-> Some(310)] :
        t \in {"IND", "ind", "XXX"}, o \in {"TOR", "LAL", "XXX"},
        pr \in {None, Some(0), Some(232)} }

B2bTeamSets == { {}, {"IND"} }

InitContext ==
    /\ pc = "call"
    /\ ret = None /\ locals = None
    /\ dvp_rows = None /\ stats_db = None /\ plays = None /\ top_plays = None /\ picks_file = None
    /\ \/ /\ fn = "get_game_pace_factor"
          /\ args \in { [team1 |-> a, team2 |-> b] : a \in PaceTeams, b \in PaceTeams }
       \/ /\ fn = "get_injury_boost_info"
          /\ args \in { [player_team |-> t, stats_db |-> db, injured_by_team |-> inj] :
                          t \in {"IND", "TOR"}, db \in InjuryDbs, inj \in InjuredByTeam }
       \/ /\ fn = "main.line_analyzer"
          /\ args \in { [play |-> p, direction |-> d, line |-> l, total_exposure |-> x,
                         b2b_teams |-> b, stats_db |-> db, injured_by_team |-> inj] :
                          p \in AnalyzerPlays, d \in {"OVER", "UNDER"}, l \in {0, 225},
                          x \in {1, 4}, b \in B2bTeamSets,
                          db \in {InjuryDbFull, InjuryDbText},
                          inj \in { EmptyDict,
                                    "IND" :> << OutPlayer(<<"J", " ", "S">>) >>,
                                    "IND" :> << OutPlayer(<<"b", " ", "k">>),
                                                OutPlayer(<<"J", " ", "S">>) >>,
                                    "IND" :> << OutPlayer(<<"A", " ", "Q">>) >> } }

GetGamePaceFactor ==
    /\ pc = "call"
    /\ fn = "get_game_pace_factor"
    /\ \E pace_info \in get_game_pace_factor(args.team1, args.team2) :
          ret' = Some(pace_info)
    /\ pc' = "done"
    /\ UNCHANGED <<fn, args, locals, mainVars>>

GetInjuryBoostInfo ==
    /\ pc = "call"
    /\ fn = "get_injury_boost_info"
    /\ IF InjuryRaises(args.player_team, args.stats_db, args.injured_by_team)
       THEN pc' = "raised" /\ ret' = None
       ELSE /\ pc' = "done"
            /\ ret' = Some(get_injury_boost_info(args.player_team, args.stats_db,
                                                 args.injured_by_team))
    /\ UNCHANGED <<fn, args, locals, mainVars>>

\* the analysis of the selected play, from the back-to-back warning to the edge
AnalyzeLine ==
    /\ pc = "call"
    /\ fn = "main.line_analyzer"
    /\ IF InjuryRaises(args.play.team, args.stats_db, args.injured_by_team)
       THEN pc' = "raised" /\ ret' = None
       ELSE /\ pc' = "done"
            /\ \E pace_info \in get_game_pace_factor(args.play.team, args.play.opponent) :
                  ret' = Some(AnalyzeLineWith(args.play, args.direction, args.line,
                                              args.total_exposure, args.b2b_teams, pace_info,
                                              get_injury_boost_info(args.play.team,
                                                                    args.stats_db,
                                                                    args.injured_by_team)))
    /\ UNCHANGED <<fn, args, locals, mainVars>>

NextContext == GetGamePaceFactor \/ GetInjuryBoostInfo \/ AnalyzeLine

SpecContext == InitContext /\ [][NextContext]_vars

PaceDone == pc = "done" /\ fn = "get_game_pace_factor"

UnknownTeam(team) == UpperTeam(team) \notin DOMAIN TEAM_PACE

\* C18: when a team passed to get_game_pace_factor is not in the pace table,
\* the lookup falls back to the league average and the returned adjustment is
\* 0, also when only one of the two teams is unknown.
C18_UnknownTeamNoAdjustment ==
    (PaceDone /\ (UnknownTeam(args.team1) \/ UnknownTeam(args.team2))) =>
        /\ UnknownTeam(args.team1) => Val(ret).team1_pace = LEAGUE_AVG_PACE
        /\ UnknownTeam(args.team2) => Val(ret).team2_pace = LEAGUE_AVG_PACE
        /\ Val(ret).adjustment_pct = 0

\* C18 as the code has it: an unknown team takes the league average pace as
\* its own; the adjustment is 0 when both teams are unknown, and with one
\* unknown team it is half the known team's distance from the league average
\* times 0.01 (rounded to 3 decimals), 0 only for a known pace of 100.0.
C18_LeagueAverageFallback ==
    (PaceDone /\ (UnknownTeam(args.team1) \/ UnknownTeam(args.team2))) =>
        LET known == IF UnknownTeam(args.team1) THEN args.team2 ELSE args.team1
            known_pace == IF UnknownTeam(known) THEN LEAGUE_AVG_PACE
                          ELSE TEAM_PACE[UpperTeam(known)]
        IN  /\ UnknownTeam(args.team1) => Val(ret).team1_pace = LEAGUE_AVG_PACE
            /\ UnknownTeam(args.team2) => Val(ret).team2_pace = LEAGUE_AVG_PACE
            /\ (UnknownTeam(args.team1) /\ UnknownTeam(args.team2)) =>
                  Val(ret).adjustment_pct = 0
            /\ Val(ret).adjustment_pct \in RoundChoices(known_pace - LEAGUE_AVG_PACE, 2)
            /\ Val(ret).adjustment_pct = 0 <=> known_pace = LEAGUE_AVG_PACE

\* IND (103.5) against an unknown team: expected pace 101.75, adjustment
\* 0.0175 rounded
C18_Witness ==
    /\ PaceDone
    /\ args.team1 = "ind"
    /\ UnknownTeam(args.team2)
    /\ Val(ret).team2_pace = LEAGUE_AVG_PACE
    /\ Val(ret).adjustment_pct \in {17, 18}

InjuryDone == pc = "done" /\ fn = "get_injury_boost_info"

\* the boost a caller reads from the returned info: boost_pct, 0 for None
ReturnedBoost == IF Val(ret) = None THEN FInt(0) ELSE Val(Val(ret)).boost_pct

\* the usages pts + reb + ast >= 25 of the OUT teammates, in tenths
KeyUsages ==
    IF args.player_team \notin DOMAIN args.injured_by_team THEN <<>>
    ELSE LET out == args.injured_by_team[args.player_team]
             key == SelectSeq(out, LAMBDA inj : UsageOf(inj, args.stats_db) # None
                                   /\ Val(UsageOf(inj, args.stats_db)) >= 250)
         IN  [ k \in 1..Len(key) |-> Val(UsageOf(key[k], args.stats_db)) ]

RECURSIVE SumSeq(_)
SumSeq(s) == IF s = <<>> THEN 0 ELSE s[1] + SumSeq(Tail(s))

\* 0.08 + (total - 25) * 0.002 capped at 0.15, total in tenths
ClaimedBoost(total) ==
    LET linear == Frac(800 + 2 * (total - 250), 10000)
    IN  IF FLe(linear, Frac(15, 100)) THEN linear ELSE Frac(15, 100)

\* C19: the injury boost of get_injury_boost_info is 0 when the team has no
\* key absence (no OUT teammate with usage pts + reb + ast >= 25) and else
\* min(0.08 + (sum of key usage - 25) * 0.002, 0.15); it is 0 or within
\* [0.08, 0.15] and non-decreasing in the summed key usage.
C19_InjuryBoost ==
    InjuryDone =>
        /\ KeyUsages = <<>> => ReturnedBoost = FInt(0)
        /\ KeyUsages # <<>> =>
              /\ ReturnedBoost = ClaimedBoost(SumSeq(KeyUsages))
              /\ Val(Val(ret)).key # <<>>
              /\ \A total \in { 5 * k : k \in 50..(MaxOut * 90) } :
                    IF total <= SumSeq(KeyUsages)
                    THEN FLe(BoostPct(total), ReturnedBoost)
                    ELSE FLe(ReturnedBoost, BoostPct(total))
        /\ \/ ReturnedBoost = FInt(0)
           \/ FLe(Frac(8, 100), ReturnedBoost) /\ FLe(ReturnedBoost, Frac(15, 100))

\* two key absences with usages 45.0 and 25.0: 0.08 + 45 * 0.002 = 0.17 comes
\* back as 0.15
C19_Witness ==
    /\ InjuryDone
    /\ KeyUsages = <<450, 250>>
    /\ ReturnedBoost = Frac(15, 100)

\* OUT teammates without a key absence are reported with boost 0
C19_MinorWitness ==
    /\ InjuryDone
    /\ Val(ret) # None
    /\ Val(Val(ret)).key = <<>>
    /\ Val(Val(ret)).boost_pct = FInt(0)

AnalyzerDone == pc = "done" /\ fn = "main.line_analyzer"

\* C20: the projection used for the edge in the line analyzer is
\* base_projection * (1 + pace_adj + injury_adj), and a team's back-to-back
\* status never changes it: evaluations of the same play that differ only in
\* the back-to-back flag give the same projection and the same edge_pct.
C20_BackToBackFrame ==
    AnalyzerDone =>
        LET r == Val(ret)
            base_projection == IF args.play.projected # None THEN Val(args.play.projected)
                               ELSE 0
            pace_adj == Frac(r.pace_info.adjustment_pct, 1000)
            injury_adj == InjuryBoostPct(r.injury_info)
            final == FMul(FInt(base_projection), FAdd(FInt(1), FAdd(pace_adj, injury_adj)))
        IN  /\ r.adjusted_proj = final
            /\ r.proj_for_edge # None => Val(r.proj_for_edge) = final
            /\ \A b2b_teams \in B2bTeamSets \cup { {"IND", "TOR"}, {"XXX"} } :
                  LET other == AnalyzeLineWith(args.play, args.direction, args.line,
                                               args.total_exposure, b2b_teams,
                                               r.pace_info, r.injury_info)
                  IN  /\ other.adjusted_proj = r.adjusted_proj
                      /\ other.proj_for_edge = r.proj_for_edge
                      /\ other.result = r.result

\* a play of a back-to-back team with a key teammate out: the flag lowers the
\* quality score of the OVER, the projection 23.2 is raised by pace and injury
C20_Witness ==
    /\ AnalyzerDone
    /\ Val(ret).is_b2b
    /\ args.direction = "OVER"
    /\ Val(ret).quality_score #
          AnalyzeLineWith(args.play, args.direction, args.line, args.total_exposure, {},
                          Val(ret).pace_info, Val(ret).injury_info).quality_score
    /\ InjuryBoostPct(Val(ret).injury_info) = Frac(15, 100)
    /\ Val(ret).pace_info.adjustment_pct # 0
    /\ Val(ret).proj_for_edge # None
    /\ FLt(FInt(232), Val(Val(ret).proj_for_edge))
    /\ Val(ret).result # None

\* the row has no matchup rating: its opp_dvp_value column is absent
NoRating(row) == "opp_dvp_value" \notin DOMAIN row

\* C21: whenever no matchup rating is available for a play (its DVP value is
\* missing from the input), the play's projection equals its recent_avg
\* exactly, in score_play and in the projection calculate_edge uses, and the
\* caller can tell that the rating was missing.
C21_DvpFreeFallback ==
    pc \in {"merged", "filtered"} =>
        \A k \in 1..Len(NamedRows) :
            LET p == Val(plays)[k]
            IN  (NoRating(NamedRows[k]) /\ p.recent_avg # None) =>
                    /\ p.projected \in {None, p.recent_avg}
                    /\ analyzer_calculate_edge(p, 225).projected = p.recent_avg

(***************************************************************************)
(* show_player_analyzer: DVP lookup and projection (app.py)                *)
(***************************************************************************)

\* dvp_ratings[stat][position][team] = {"value", "rank", "tier"}: mappings are
\* functions, an info is a record of optional fields (an empty info has none)
Info(value, tier, rank) == [value |-> value, tier |-> tier, rank |-> rank]

\* dvp_ratings[stat][position].get(opponent) when stat and position are keys
LookupInfo(dvp_ratings, stat, position, opponent) ==
    IF stat \in DOMAIN dvp_ratings /\ position \in DOMAIN dvp_ratings[stat]
          /\ opponent \in DOMAIN dvp_ratings[stat][position]
    THEN Some(dvp_ratings[stat][position][opponent])
    ELSE None

\* pts_dvp, reb_dvp, ast_dvp: the value of the component's info, else None
ComponentValue(dvp_ratings, stat, position, opponent) ==
    LET info == LookupInfo(dvp_ratings, stat, position, opponent)
    IN  IF info = None THEN None ELSE Val(info).value

\* dvp_ratings[stat][position].get(opponent, {}).get("tier", "MID")
ComponentTier(dvp_ratings, stat, position, opponent) ==
    LET info == LookupInfo(dvp_ratings, stat, position, opponent)
    IN  IF info = None \/ Val(info).tier = None THEN "MID" ELSE Val(Val(info).tier)

\* PRA: worst_count >= 2, best_count >= 2, else MID
TripleTier(t1, t2, t3) ==
    LET worst_count == Cardinality({ i \in 1..3 : <<t1, t2, t3>>[i] = "WORST" })
        best_count == Cardinality({ i \in 1..3 : <<t1, t2, t3>>[i] = "BEST" })
    IN  IF worst_count >= 2 THEN "WORST" ELSE IF best_count >= 2 THEN "BEST" ELSE "MID"

\* PR, PA, RA: both WORST, both BEST, else MID
PairTier_m(t1, t2) ==
    IF t1 = "WORST" \/ t2 = "WORST" THEN "WORST"
    ELSE IF t1 = "BEST" \/ t2 = "BEST" THEN "BEST" ELSE "MID"
PairTier(t1, t2) ==
    IF t1 = "WORST" /\ t2 = "WORST" THEN "WORST"
    ELSE IF t1 = "BEST" /\ t2 = "BEST" THEN "BEST" ELSE "MID"

NoDvp == [dvp_info |-> None, dvp_value |-> None, dvp_tier |-> None, dvp_rank |-> None]

CombinedDvp(value, tier) ==
    [dvp_info |-> Some(Info(Some(value), Some(tier), None)),
     dvp_value |-> Some(value), dvp_tier |-> Some(tier), dvp_rank |-> None]

\* the lookup of the rating for the selected stat
LookupDvp(dvp_ratings, selected_stat, player_position, player_opponent) ==
    LET value(stat) == ComponentValue(dvp_ratings, stat, player_position, player_opponent)
        tier(stat) == ComponentTier(dvp_ratings, stat, player_position, player_opponent)
        pts_dvp == value("PTS")
        reb_dvp == value("REB")
        ast_dvp == value("AST")
    IN  IF DOMAIN dvp_ratings = {} \/ player_position = "" \/ player_opponent = ""
        THEN NoDvp
        ELSE IF selected_stat \in {"PRA", "PR", "PA", "RA"}
        THEN IF selected_stat = "PRA" /\ pts_dvp # None /\ reb_dvp # None /\ ast_dvp # None
             THEN CombinedDvp(Val(pts_dvp) + Val(reb_dvp) + Val(ast_dvp),
                              TripleTier(tier("PTS"), tier("REB"), tier("AST")))
             ELSE IF selected_stat = "PR" /\ pts_dvp # None /\ reb_dvp # None
             THEN CombinedDvp(Val(pts_dvp) + Val(reb_dvp), PairTier(tier("PTS"), tier("REB")))
             ELSE IF selected_stat = "PA" /\ pts_dvp # None /\ ast_dvp # None
             THEN CombinedDvp(Val(pts_dvp) + Val(ast_dvp), PairTier(tier("PTS"), tier("AST")))
             ELSE IF selected_stat = "RA" /\ reb_dvp # None /\ ast_dvp # None
             THEN CombinedDvp(Val(reb_dvp) + Val(ast_dvp), PairTier(tier("REB"), tier("AST")))
             ELSE NoDvp
        ELSE LET dvp_info == LookupInfo(dvp_ratings, selected_stat, player_position,
                                        player_opponent)
             IN  IF dvp_info = None \/ Val(dvp_info) = Info(None, None, None)
                 THEN [NoDvp EXCEPT !.dvp_info = dvp_info]
                 ELSE [dvp_info |-> dvp_info, dvp_value |-> Val(dvp_info).value,
                       dvp_tier |-> Val(dvp_info).tier, dvp_rank |-> Val(dvp_info).rank]

\* has_dvp = dvp_value is not None and dvp_value > 0
HasDvp_m(dvp_value) == dvp_value # None
HasDvp(dvp_value) == dvp_value # None /\ Val(dvp_value) > 0

\* the projection of the player analyzer (computed when avg > 0 and line > 0):
\* the blend when a positive rating exists, else the average itself
PlayerProjection(avg, dvp, mpg) ==
    IF HasDvp(dvp.dvp_value)
    THEN calculate_projection(avg, Val(dvp.dvp_value),
                              IF dvp.dvp_tier = None THEN "WORST" ELSE Val(dvp.dvp_tier),
                              IF mpg # None /\ Val(mpg) > 0 THEN mpg ELSE None)
    ELSE avg

\* ---- inputs of the player analyzer
ComponentStats == { "PTS", "REB", "AST" }

RatingInfos ==
    { Info(Some(248), t, Some(3)) : t \in { Some("WORST"), Some("BEST"), Some("MID"), None } }
    \cup { Info(None, Some("WORST"), Some(3)), Info(Some(0), Some("WORST"), Some(30)) }

\* what the ratings file holds for one stat: nothing, another position,
\* another opponent, or an info for the position and opponent
RatingChoices ==
    { <<"no stat">>, <<"no position">>, <<"no opponent">> }
    \cup { <<"info", i>> : i \in RatingInfos }

RatingTable(choice) ==
    IF choice[1] = "no position" THEN "C" :> ("TOR" :> Info(Some(100), Some("MID"), Some(15)))
    ELSE IF choice[1] = "no opponent"
    THEN "PG" :> ("LAL" :> Info(Some(100), Some("MID"), Some(15)))
    ELSE "PG" :> ("TOR" :> choice[2])

DvpRatings(choices) ==
    [ stat \in { s \in ComponentStats : choices[s] # <<"no stat">> } |->
        RatingTable(choices[stat]) ]

InitPlayerAnalyzer ==
    /\ pc = "call"
    /\ fn = "show_player_analyzer"
    /\ ret = None /\ locals = None
    /\ dvp_rows = None /\ stats_db = None /\ plays = None /\ top_plays = None /\ picks_file = None
    /\ \E choices \in [ComponentStats -> RatingChoices] :
          args \in { [dvp_ratings |-> DvpRatings(choices), selected_stat |-> s,
                      player_position |-> pos, player_opponent |-> "TOR",
                      avg |-> a, mpg |-> Some(310), line |-> 225] :
                        s \in {"PRA", "PR", "PA", "RA", "PTS"}, pos \in {"PG", ""},
                        a \in {0, 280} }

\* the rating lookup, then the projection when avg > 0 and line > 0
ShowPlayerAnalyzer ==
    /\ pc = "call"
    /\ fn = "show_player_analyzer"
    /\ LET dvp == LookupDvp(args.dvp_ratings, args.selected_stat, args.player_position,
                            args.player_opponent)
       IN  ret' = Some(dvp @@ [projected |->
                                 IF args.avg > 0 /\ args.line > 0
                                 THEN Some(PlayerProjection(args.avg, dvp, args.mpg))
                                 ELSE None])
    /\ pc' = "done"
    /\ UNCHANGED <<fn, args, locals, mainVars>>

NextPlayerAnalyzer == ShowPlayerAnalyzer

SpecPlayerAnalyzer == InitPlayerAnalyzer /\ [][NextPlayerAnalyzer]_vars

\* the component stats of a combined stat
ComponentsOf(stat) ==
    CASE stat = "PRA" -> {"PTS", "REB", "AST"}
      [] stat = "PR" -> {"PTS", "REB"}
      [] stat = "PA" -> {"PTS", "AST"}
      [] stat = "RA" -> {"REB", "AST"}

\* the rating of one component for the player's position and opponent
RatingOf(stat) ==
    LookupInfo(args.dvp_ratings, stat, args.player_position, args.player_opponent)

RatingMissing(stat) == RatingOf(stat) = None \/ Val(RatingOf(stat)).value = None

TierCount(stats, tier) ==
    Cardinality({ s \in stats : Val(RatingOf(s)).tier = Some(tier) })

CombinedDone ==
    /\ pc = "done"
    /\ fn = "show_player_analyzer"
    /\ args.selected_stat \in {"PRA", "PR", "PA", "RA"}
    /\ args.player_position # ""

\* C22: for a combined stat (PRA, PR, PA, RA) the lookup returns the sum of
\* the component ratings' values, tier WORST if at least 2 components are
\* WORST, BEST if at least 2 are BEST, else MID, and rank None; if a component
\* rating is missing for the position and opponent, no combined value (None).
C22_CombinedRating ==
    CombinedDone =>
        LET components == ComponentsOf(args.selected_stat)
        IN  IF \E s \in components : RatingMissing(s)
            THEN Val(ret).dvp_value = None /\ Val(ret).dvp_info = None
            ELSE /\ Val(ret).dvp_value =
                       Some(SumOver([ s \in components |-> Val(Val(RatingOf(s)).value) ],
                                    components))
                 /\ Val(ret).dvp_tier =
                       Some(IF TierCount(components, "WORST") >= 2 THEN "WORST"
                            ELSE IF TierCount(components, "BEST") >= 2 THEN "BEST"
                            ELSE "MID")
                 /\ Val(ret).dvp_rank = None
                 /\ Val(Val(ret).dvp_info).rank = None

\* PR with points rated WORST and rebounds rated MID: the sum 49.6, tier MID
C22_Witness ==
    /\ CombinedDone
    /\ args.selected_stat = "PR"
    /\ RatingOf("PTS") # None
    /\ RatingOf("REB") # None
    /\ Val(RatingOf("PTS")).tier = Some("WORST")
    /\ Val(RatingOf("REB")).tier = Some("MID")
    /\ Val(ret).dvp_value = Some(496)
    /\ Val(ret).dvp_tier = Some("MID")

\* the dashboard half of C21: without a positive rating the projection of the
\* player analyzer is the average itself
C21_DashboardFallback ==
    (/\ pc = "done" /\ fn = "show_player_analyzer" /\ Val(ret).projected # None
     /\ (Val(ret).dvp_value = None \/ Val(Val(ret).dvp_value) <= 0)) =>
        Val(ret).projected = Some(args.avg)

(***************************************************************************)
(* running merge_and_score and filter_top_plays a second time              *)
(***************************************************************************)

\* the caller's list after filter_top_plays(plays, ...): valid_plays, overs
\* and unders are new lists, sort() and diversify act on those, so the list
\* and its plays are left as they were
PlaysAfterFilter_m(all_plays) == SortByScoreDesc(all_plays)
PlaysAfterFilter(all_plays) == all_plays

RerunRows ==
    { [player |-> pl, stat |-> "PTS", opp_dvp_value |-> Num(248), tier |-> t] :
        pl \in { <<"J", " ", "S">>, <<"b", " ", "k">> }, t \in {"WORST", "BEST", "MID"} }

InitRerun ==
    /\ pc = "loaded"
    /\ fn = "main"
    /\ args = None /\ ret = None /\ locals = None
    /\ dvp_rows \in SeqsUpTo(RerunRows, MaxRows)
    /\ stats_db \in StatsDbs
    /\ plays = None
    /\ top_plays = None /\ picks_file = None

\* the first filter_top_plays; locals keeps what the first run produced
FilterOnce ==
    /\ pc = "merged"
    /\ \E top_n \in TopNs, max_per_player \in PlayerCaps :
          top_plays' = [top_n |-> top_n, max_per_player |-> max_per_player]
                         @@ filter_top_plays(Val(plays), top_n, max_per_player)
    /\ plays' = Some(PlaysAfterFilter(Val(plays)))
    /\ locals' = Some([plays |-> plays, top_plays |-> top_plays'])
    /\ pc' = "filtered"
    /\ UNCHANGED <<fn, args, ret, dvp_rows, stats_db, picks_file>>

\* filter_top_plays a second time on the same scored play list
FilterAgain ==
    /\ pc = "filtered"
    /\ top_plays' = [top_n |-> top_plays.top_n, max_per_player |-> top_plays.max_per_player]
                      @@ filter_top_plays(Val(plays), top_plays.top_n,
                                          top_plays.max_per_player)
    /\ plays' = Some(PlaysAfterFilter(Val(plays)))
    /\ pc' = "refiltered"
    /\ UNCHANGED <<frame, dvp_rows, stats_db, picks_file>>

\* merge_and_score and filter_top_plays again on the same inputs
RunAgain ==
    /\ pc = "filtered"
    /\ LET again == merge_and_score(dvp_rows, stats_db)
       IN  /\ top_plays' = [top_n |-> top_plays.top_n,
                            max_per_player |-> top_plays.max_per_player]
                             @@ filter_top_plays(again, top_plays.top_n,
                                                 top_plays.max_per_player)
           /\ plays' = Some(PlaysAfterFilter(again))
    /\ pc' = "rerun"
    /\ UNCHANGED <<frame, dvp_rows, stats_db, picks_file>>

NextRerun == MergeAndScore \/ FilterOnce \/ FilterAgain \/ RunAgain

SpecRerun == InitRerun /\ [][NextRerun]_vars

Micro == 1000000
Milli == 1000

\* a * b for a, b >= 0 in millionths, rounded to the nearest millionth
MulMicro(a, b) ==
    LET ah == a \div Milli
        al == a % Milli
        b1 == b \div Milli
        b0 == b % Milli
        m  == ah * b0 + al * b1
    IN  ah * b1 + (m \div Milli)
          + (((m % Milli) * Milli + al * b0 + (Micro \div 2)) \div Micro)

SignedMul(a, b) ==
    IF (a < 0) = (b < 0) THEN MulMicro(Abs(a), Abs(b))
                         ELSE 0 - MulMicro(Abs(a), Abs(b))

RECURSIVE Pow10(_)
Pow10(k) == IF k = 0 THEN 1 ELSE 10 * Pow10(k - 1)

RECURSIVE QuotientDigits(_, _, _)
QuotientDigits(r, b, k) ==
    IF k = 0 THEN 0
    ELSE (((r * 10) \div b) * Pow10(k - 1)) + QuotientDigits((r * 10) % b, b, k - 1)

\* a / b for a >= 0, b > 0, in millionths
DivMicro(a, b) == (a \div b) * Micro + QuotientDigits(a % b, b, 6)

\* math.exp(x) for x >= 0 in millionths: the power series, term by term
RECURSIVE ExpTerms(_, _, _)
ExpTerms(term, x, k) ==
    IF term = 0 THEN 0
    ELSE term + ExpTerms(MulMicro(term, x) \div k, x, k + 1)

ExpMicro(x) == ExpTerms(Micro, x, 1)

cdf_a1 == 254830
cdf_a2 == -284497
cdf_a3 == 1421414
cdf_a4 == -1453152
cdf_a5 == 1061405
cdf_p == 327591

\* beyond |z| = 3 the tail is below 0.002 and the clamp of estimate_hit_rate
\* decides; |z| is held there so that exp stays in range
TailZ == 3 * Micro

\* 2 * normal_cdf(z), in millionths
normal_cdf2(z0) ==
    LET sign == IF z0 >= 0 THEN 1 ELSE -1
        z    == Min(Abs(z0), TailZ)
        t    == DivMicro(Micro, Micro + MulMicro(cdf_p, z))
        poly == SignedMul(SignedMul(SignedMul(SignedMul(SignedMul(cdf_a5, t) + cdf_a4, t)
                                                + cdf_a3, t) + cdf_a2, t) + cdf_a1, t)
        y    == Micro - SignedMul(poly, DivMicro(Micro, ExpMicro(MulMicro(z, z) \div 2)))
    IN  Micro + sign * y

\* cv in hundredths
CvOf(avg) == IF avg >= 200 THEN 28 ELSE IF avg >= 100 THEN 32 ELSE 40

\* z = (line - avg) / std_dev in millionths; avg and line in tenths
ZScore(avg, line) ==
    LET num == (line - avg) * 100
        den == avg * CvOf(avg)
    IN  IF num >= 0 THEN DivMicro(num, den) ELSE 0 - DivMicro(0 - num, den)

\* max(0.05, min(0.95, hit_rate)) on twice the rate in millionths
ClampRate_m(h2) == h2
ClampRate(h2) == Max(100000, Min(1900000, h2))

Confidence(avg, line) ==
    LET diff == Abs(avg - line) * 100
    IN  IF diff >= 15 * line THEN "high"
        ELSE IF diff >= 8 * line THEN "medium" ELSE "low"

\* hit_rate is returned in hundredths (round(hit_rate, 2))
estimate_hit_rate(avg, line, direction) ==
    IF avg <= 0 \/ line <= 0
    THEN [hit_rate |-> 50, confidence |-> "low"]
    ELSE LET c2 == normal_cdf2(ZScore(avg, line))
             h2 == ClampRate(IF direction = "OVER" THEN 2 * Micro - c2 ELSE c2)
         IN  [hit_rate |-> RoundHalfEven(h2, 20000),
              confidence |-> Confidence(avg, line)]

MaxLineSteps == 100
HitLines == { 5 * k : k \in 0..MaxLineSteps }
HitAvgs == {0, 50, 120, 200, 280}

InitHitRate ==
    /\ pc = "call"
    /\ fn = "estimate_hit_rate"
    /\ \E avg \in HitAvgs, line \in HitLines, direction \in {"OVER", "UNDER"} :
          args = [avg |-> avg, line |-> line, direction |-> direction]
    /\ ret = None /\ locals = None
    /\ dvp_rows = <<>> /\ stats_db = EmptyDict
    /\ plays = None /\ top_plays = None /\ picks_file = None

EstimateHitRate ==
    /\ pc = "call" /\ fn = "estimate_hit_rate"
    /\ ret' = Some(estimate_hit_rate(args.avg, args.line, args.direction))
    /\ pc' = "done"
    /\ UNCHANGED <<fn, args, locals, mainVars>>

NextHitRate == EstimateHitRate

SpecHitRate == InitHitRate /\ [][NextHitRate]_vars

OverDone ==
    /\ pc = "done" /\ fn = "estimate_hit_rate"
    /\ args.direction = "OVER" /\ args.avg > 0 /\ args.line > 0

HigherLines == { l \in HitLines : l > args.line /\ l <= args.line + 10 }

ClaimedDecimal(o) == IF o > 0 THEN Frac(o + 100, 100) ELSE Frac(Abs(o) + 100, Abs(o))
ClaimedImplied(o) == IF o > 0 THEN Frac(100, o + 100) ELSE Frac(Abs(o), Abs(o) + 100)

ImpliedInside(prob) == FLt(FInt(0), prob) /\ FLt(prob, FInt(1))

\* C25: for nonzero American odds o, american_to_decimal returns o/100 + 1
\* (o > 0) or 100/|o| + 1 (o < 0), which is > 1, and decimal_to_implied_prob
\* of it is 1/decimal, strictly between 0 and 1: 100/(o+100) resp.
\* |o|/(|o|+100); -110 gives 11/21 (about 0.524) and +150 gives 0.40.
C25_OddsConversion ==
    /\ (fn = "american_to_decimal" /\ pc # "call" /\ args.american_odds # 0) =>
          /\ pc = "done"
          /\ Val(ret) = ClaimedDecimal(args.american_odds)
          /\ FLt(FInt(1), Val(ret))
          /\ decimal_to_implied_prob(Val(ret)) = ClaimedImplied(args.american_odds)
          /\ ImpliedInside(decimal_to_implied_prob(Val(ret)))
    /\ (fn = "main.kelly_bet" /\ pc # "call" /\ args.odds # 0) =>
          /\ pc = "done"
          /\ Val(ret).decimal_odds = ClaimedDecimal(args.odds)
          /\ Val(ret).implied_prob = ClaimedImplied(args.odds)
          /\ FMul(Val(ret).implied_prob, Val(ret).decimal_odds) = FInt(1)
          /\ ImpliedInside(Val(ret).implied_prob)
          /\ args.odds = -110 => Val(ret).implied_prob = Frac(11, 21)
          /\ args.odds = 150 => Val(ret).implied_prob = Frac(2, 5)
    /\ (fn = "decimal_to_implied_prob" /\ pc = "done" /\ FLt(FInt(0), args.decimal_odds)) =>
          FMul(Val(ret), args.decimal_odds) = FInt(1)

\* the dashboard converted odds of -110 to decimal odds and implied
\* probability
C25_Witness ==
    /\ fn = "main.kelly_bet" /\ pc = "done" /\ args.odds = -110
    /\ Val(ret).decimal_odds = Frac(21, 11)
    /\ Val(ret).implied_prob = Frac(11, 21)

(***************************************************************************)
(* prop_dvp_shortlist.py: print_shortlist, one step per loop iteration     *)
(***************************************************************************)

\* list.sort(key=...) is stable: rows with equal keys keep their order;
\* keys is a function from rows to integers, smallest first.  A row's place
\* is one more than the number of rows that sort before it.
SortByKey(l, keys) ==
    LET n == Len(l)
        before(j, i) == keys[l[j]] < keys[l[i]] \/ (keys[l[j]] = keys[l[i]] /\ j < i)
        place == [i \in 1..n |-> Cardinality({ j \in 1..n : before(j, i) }) + 1]
    IN  [q \in 1..n |-> l[CHOOSE i \in 1..n : place[i] = q]]

\* key=lambda c: c["opp_dvp_value"], reverse=sort_reverse
DvpKeys(rows, sort_reverse) ==
    [r \in Range(rows) |-> IF sort_reverse THEN 0 - r.opp_dvp_value ELSE r.opp_dvp_value]

SideOf(candidates, overs) ==
    SelectSeq(candidates, LAMBDA c : IF overs THEN c.edge_score > 0 ELSE c.edge_score < 0)

stat_priority == <<"PRA", "PTS", "REB", "AST">>

\* the other stats of the model in sorted() order
OtherStats == <<"3PM">>

GroupOf(filtered, stat, sort_reverse) ==
    LET rows == SelectSeq(filtered, LAMBDA c : c.stat = stat)
    IN  SortByKey(rows, DvpKeys(rows, sort_reverse))

OrderedStats(filtered) ==
    LET present(s) == \E i \in 1..Len(filtered) : filtered[i].stat = s
    IN  SelectSeq(stat_priority, present) \o SelectSeq(OtherStats, present)

\* selected.extend(rows[:per_stat_limit]) for each stat in ordered_stats
RECURSIVE SelectPerStat(_, _, _, _)
SelectPerStat(filtered, stats, per_stat_limit, sort_reverse) ==
    IF stats = <<>> THEN <<>>
    ELSE Prefix(GroupOf(filtered, Head(stats), sort_reverse), per_stat_limit)
           \o SelectPerStat(filtered, Tail(stats), per_stat_limit, sort_reverse)

\* selected.sort(by DvP); selected = selected[:max_total]
TrimTo_m(selected, max_total, sort_reverse) ==
    SortByKey(selected, DvpKeys(selected, sort_reverse))
TrimTo(selected, max_total, sort_reverse) ==
    Prefix(SortByKey(selected, DvpKeys(selected, sort_reverse)), max_total)

StatIndex(ordered_stats, stat) ==
    IF \E i \in 1..Len(ordered_stats) : ordered_stats[i] = stat
    THEN (CHOOSE i \in 1..Len(ordered_stats) :
             /\ ordered_stats[i] = stat
             /\ \A j \in 1..(i - 1) : ordered_stats[j] # stat) - 1
    ELSE Len(ordered_stats)

DvpSpan == 1000

\* sort_key: (stat_index, -dvp if sort_reverse else dvp)
FinalKeys(rows, ordered_stats, sort_reverse) ==
    [r \in Range(rows) |->
        StatIndex(ordered_stats, r.stat) * (2 * DvpSpan)
          + (IF sort_reverse THEN 0 - r.opp_dvp_value ELSE r.opp_dvp_value)]

MaxCands == 4

CandidateRows ==
    { [player |-> "A", stat |-> "PTS", opp_dvp_value |-> 248, edge_score |-> 1],
      [player |-> "B", stat |-> "PTS", opp_dvp_value |-> 251, edge_score |-> 1],
      [player |-> "C", stat |-> "3PM", opp_dvp_value |-> 31, edge_score |-> 1],
      [player |-> "D", stat |-> "PTS", opp_dvp_value |-> 190, edge_score |-> -1] }

MaxTotals == {0, 1, 3}

InitShortlist ==
    /\ pc = "call"
    /\ fn = "print_shortlist"
    /\ \E candidates \in SeqsUpTo(CandidateRows, MaxCands),
          overs \in BOOLEAN, max_total \in MaxTotals :
          args = [candidates |-> candidates, overs |-> overs, max_total |-> max_total]
    /\ ret = None /\ locals = None
    /\ dvp_rows = None /\ stats_db = None /\ plays = None /\ top_plays = None /\ picks_file = None

\* steps 1-3: filter by side, group by stat, sort the groups, order the stats
ShortlistGroup ==
    /\ pc = "call" /\ fn = "print_shortlist"
    /\ LET filtered == SideOf(args.candidates, args.overs)
       IN  IF filtered = <<>>
           THEN /\ ret' = Some(<<>>)
                /\ locals' = locals
                /\ pc' = "done"
           ELSE /\ locals' = Some([filtered |-> filtered,
                                   ordered_stats |-> OrderedStats(filtered),
                                   per_stat_limit |-> 4,
                                   selected |-> <<>>])
                /\ ret' = ret
                /\ pc' = "loop"
    /\ UNCHANGED <<fn, args, mainVars>>

\* one iteration of: while per_stat_limit >= 1
ShortlistLimit ==
    /\ pc = "loop" /\ fn = "print_shortlist"
    /\ LET l == Val(locals)
           selected == SelectPerStat(l.filtered, l.ordered_stats, l.per_stat_limit,
                                     args.overs)
       IN  IF l.per_stat_limit < 1
           THEN /\ locals' = locals
                /\ pc' = "trim"
           ELSE IF Len(selected) <= args.max_total \/ l.per_stat_limit = 1
           THEN /\ locals' = Some([l EXCEPT !.selected = selected])
                /\ pc' = "trim"
           ELSE /\ locals' = Some([l EXCEPT !.selected = selected,
                                            !.per_stat_limit = l.per_stat_limit - 1])
                /\ pc' = "loop"
    /\ UNCHANGED <<fn, args, ret, mainVars>>

\* steps 5-7: trim to max_total, final sort, print
ShortlistPrint ==
    /\ pc = "trim" /\ fn = "print_shortlist"
    /\ LET l == Val(locals)
           trimmed == IF Len(l.selected) > args.max_total
                      THEN TrimTo(l.selected, args.max_total, args.overs)
                      ELSE l.selected
       IN  ret' = Some(SortByKey(trimmed, FinalKeys(trimmed, l.ordered_stats, args.overs)))
    /\ pc' = "done"
    /\ UNCHANGED <<fn, args, locals, mainVars>>

NextShortlist == ShortlistGroup \/ ShortlistLimit \/ ShortlistPrint

SpecShortlist == InitShortlist /\ [][NextShortlist]_vars

\* print_shortlist runs to its end once called: it is straight-line code
\* around one loop, with nothing to wait for
SpecShortlistFair == SpecShortlist /\ WF_vars(NextShortlist)

Printed == pc = "done" /\ fn = "print_shortlist"

CountRows(rows, r) == Cardinality({ i \in 1..Len(rows) : rows[i] = r })

StatRows(rows, stat) == SelectSeq(rows, LAMBDA c : c.stat = stat)

Better(q, r, overs) ==
    IF overs THEN q.opp_dvp_value > r.opp_dvp_value ELSE q.opp_dvp_value < r.opp_dvp_value

\* the per-stat limit the loop ends with: the largest of 4, 3, 2, 1 whose
\* selection fits max_total, else 1
ClaimedLimit(filtered, max_total) ==
    LET size(k) == Cardinality({ <<s, i>> \in {"PTS", "3PM"} \X (1..k) :
                                    i <= Len(StatRows(filtered, s)) })
        fits == { k \in 1..4 : size(k) <= max_total }
    IN  IF fits = {} THEN 1 ELSE CHOOSE k \in fits : \A j \in fits : j <= k

ShortlistSafe ==
    /\ (pc \in {"loop", "trim"} /\ fn = "print_shortlist") =>
          Val(locals).per_stat_limit \in 1..4
    /\ Printed =>
          LET filtered == SideOf(args.candidates, args.overs)
              selected == Val(ret)
          IN  /\ Len(selected) <= args.max_total
              /\ \A r \in Range(selected) : CountRows(selected, r) <= CountRows(filtered, r)
              /\ filtered # <<>> =>
                    LET limit == Val(locals).per_stat_limit
                    IN  /\ limit = ClaimedLimit(filtered, args.max_total)
                        /\ \A s \in {"PTS", "3PM"} :
                              Len(StatRows(selected, s)) <= limit
                        /\ (limit > 1 \/ Len(Val(locals).selected) <= args.max_total) =>
                              \A s \in {"PTS", "3PM"} :
                                 Len(StatRows(selected, s))
                                    = Min(limit, Len(StatRows(filtered, s)))
                        /\ Len(Val(locals).selected) > args.max_total =>
                              Len(selected) = args.max_total
              /\ \A r \in Range(selected) :
                    \A i \in 1..Len(filtered) :
                       (filtered[i].stat = r.stat /\ Better(filtered[i], r, args.overs)) =>
                           filtered[i] \in Range(selected)

\* C26: print_shortlist selects at most max_total rows: the top 4 per stat
\* by DvP, with the per-stat limit lowered to 3, 2, 1 while the selection
\* exceeds max_total and, at limit 1, a trim to the overall top max_total;
\* the limit-lowering loop terminates for every input.
C26_ShortlistBounded == [](ShortlistSafe) /\ <>(Printed)

\* the limit was lowered to 2 to fit three rows
C26_Witness ==
    /\ Printed /\ locals # None
    /\ args.max_total = 3
    /\ Val(locals).per_stat_limit = 2
    /\ Len(Val(ret)) = 3

\* with one row per stat still too many, the overall top row was kept
C26_TrimWitness ==
    /\ Printed /\ locals # None
    /\ args.max_total = 1
    /\ Val(locals).per_stat_limit = 1
    /\ Len(Val(locals).selected) = 2
    /\ Len(Val(ret)) = 1

(***************************************************************************)
(* app.py: from a projection and a line to the suggested stake             *)
(* (calculate_edge, estimate_win_probability, calculate_kelly, kelly_bet)  *)
(***************************************************************************)

\* estimate_win_probability(edge_pct): base_prob defaults to 0.50
base_prob_default_m == Frac(3, 5)
base_prob_default == Frac(1, 2)

\* None stands for the ZeroDivisionError of american_to_decimal(0)
size_line(projected, line, direction, odds, bankroll) ==
    LET result == app_calculate_edge(projected, line, direction)
        decimal_odds == american_to_decimal(odds)
    IN  IF decimal_odds = None THEN None
        ELSE LET win_prob == estimate_win_probability(result.edge_pct, base_prob_default)
                 kelly == calculate_kelly(win_prob, Val(decimal_odds), Frac(1, 4))
             IN  Some([recommendation |-> result.recommendation,
                       edge_pct |-> result.edge_pct,
                       decimal_odds |-> Val(decimal_odds),
                       win_prob |-> win_prob,
                       kelly |-> kelly,
                       kelly_bet |-> KellyBet(bankroll, kelly)])

\* projections and lines in tenths
SizeProjected == { -10, 0, 100, 194, 200, 206, 230 }
SizeLines == { 0, 200 }
SizeOdds == { -110, 0, 100, 105, 110, 150 }

InitSizing ==
    /\ pc = "call"
    /\ fn = "main.size_line"
    /\ \E projected \in SizeProjected, line \in SizeLines, direction \in {"OVER", "UNDER"},
          odds \in SizeOdds, bankroll \in Bankrolls :
          args = [projected |-> projected, line |-> line, direction |-> direction,
                  odds |-> odds, bankroll |-> bankroll]
    /\ ret = None /\ locals = None
    /\ dvp_rows = None /\ stats_db = None /\ plays = None /\ top_plays = None /\ picks_file = None

SizeLine ==
    /\ pc = "call" /\ fn = "main.size_line"
    /\ ret' = size_line(args.projected, args.line, args.direction, args.odds, args.bankroll)
    /\ pc' = IF ret' = None THEN "raised" ELSE "done"
    /\ UNCHANGED <<fn, args, locals, mainVars>>

NextSizing == SizeLine

SpecSizing == InitSizing /\ [][NextSizing]_vars

PassSized ==
    /\ pc = "done" /\ fn = "main.size_line"
    /\ Val(ret).recommendation \in {"PASS", "Invalid line"}

C27_PositiveStake ==
    /\ PassSized
    /\ Val(ret).recommendation = "PASS"
    /\ args.odds = 150 /\ args.bankroll = 500
    /\ FLt(FInt(0), Val(ret).kelly_bet)

\* ---- C28

\* the play the analyzer is given for a direction and a projection
PlayFor(direction, projected) ==
    [Play(<<"A">>, "PTS", 248, IF direction = "OVER" THEN "WORST" ELSE "BEST",
          Some(100), Some(8), None) EXCEPT !.projected = Some(projected)]

DirectionOf(tier) == IF tier = "WORST" THEN "OVER" ELSE "UNDER"

\* C28: the analyzer's calculate_edge (tier WORST as OVER, BEST as UNDER,
\* play.projected set) and the dashboard's calculate_edge return the same
\* edge_pct and the same strong / lean / toss-up / pass class for every
\* projected >= 0, line > 0 and direction.
C28_EdgeAgreement ==
    /\ (pc = "done" /\ fn = "app.calculate_edge" /\ args.line > 0 /\ args.projected >= 0) =>
          LET other == analyzer_calculate_edge(PlayFor(args.direction, args.projected),
                                               args.line)
          IN  /\ other.edge_pct = Some(Val(ret).edge_pct)
              /\ ClassOf(other.recommendation) = ClassOf(Val(ret).recommendation)
              /\ ClassOf(other.recommendation) \in {"strong", "lean", "toss-up", "pass"}
    /\ (pc = "done" /\ fn = "prop_analyzer.calculate_edge" /\ args.line > 0
            /\ args.play.projected # None) =>
          LET other == app_calculate_edge(Val(args.play.projected), args.line,
                                          DirectionOf(args.play.tier))
          IN  /\ Val(ret).edge_pct = Some(other.edge_pct)
              /\ ClassOf(Val(ret).recommendation) = ClassOf(other.recommendation)
              /\ ClassOf(other.recommendation) \in {"strong", "lean", "toss-up", "pass"}

\* the analyzer called an UNDER play a lean where the dashboard does too
C28_Witness ==
    /\ pc = "done" /\ fn = "prop_analyzer.calculate_edge"
    /\ args.play.tier = "BEST" /\ args.line = 100
    /\ args.play.projected = Some(95)
    /\ Val(ret).recommendation = "LEAN UNDER"
    /\ app_calculate_edge(95, 100, "UNDER").recommendation = "LEAN UNDER"

\* ---- C29

SelectedFrom(list, all_plays, tier) ==
    \A p \in Range(list) :
        /\ CountRows(list, p) <= CountRows(all_plays, p)
        /\ IsValidPlay(p)
        /\ p.tier = tier

\* C29: each list returned by filter_top_plays selects every input play at
\* most once and only input plays that pass the validity filter; overs holds
\* only tier WORST plays, unders only tier BEST plays, and a play of any
\* other tier is in neither list.
C29_SelectionSound ==
    pc = "filtered" =>
        /\ SelectedFrom(top_plays.overs, Val(plays), "WORST")
        /\ SelectedFrom(top_plays.unders, Val(plays), "BEST")
        /\ \A i \in 1..Len(Val(plays)) :
              Val(plays)[i].tier \notin {"WORST", "BEST"} =>
                  Val(plays)[i] \notin Range(top_plays.overs) \cup Range(top_plays.unders)

\* a valid play of tier MID is left out although the overs list has room
C29_Witness ==
    /\ pc = "filtered"
    /\ top_plays.top_n = 2
    /\ Len(top_plays.overs) = 1
    /\ \E i \in 1..Len(Val(plays)) :
          /\ Val(plays)[i].tier = "MID"
          /\ IsValidPlay(Val(plays)[i])

(***************************************************************************)
(* app.py: the picks file shared by the dashboard sessions.  Each session  *)
(* runs add_pick, remove_pick, update_pick_result or clear_all_picks as    *)
(* load_picks, a change of its own copy, then save_picks (open for         *)
(* writing, which empties the file, then json.dump).  Nothing orders the   *)
(* steps of two sessions.                                                  *)
(***************************************************************************)

Sessions == {1, 2}

MaxOps == 3

\* json.load of a missing, empty or half-written file fails: return []
load_picks(file) == IF file = None THEN <<>> ELSE Val(file)

NewPick(id) == [id |-> id, result |-> "pending"]

RemoveAt(picks, k) == SubSeq(picks, 1, k - 1) \o SubSeq(picks, k + 1, Len(picks))

\* indices are 0-based in the code: 0 <= index < len(picks)
InRange(index, picks) == 0 <= index /\ index < Len(picks)

PickOps(id) ==
    { [op |-> "add_pick", pick |-> NewPick(id)],
      [op |-> "remove_pick", index |-> 0],
      [op |-> "update_pick_result", index |-> 0, result |-> "won"],
      [op |-> "clear_all_picks"] }

\* ret is the record of what the sessions have done: the number of
\* operations started, the ids of the picks whose add_pick returned, and the
\* ids removed by a remove_pick or dropped by a clear_all_picks
InitPicks ==
    /\ pc = [s \in Sessions |-> "idle"]
    /\ fn = "dashboard"
    /\ args = [s \in Sessions |-> None]
    /\ locals = [s \in Sessions |-> None]
    /\ ret = [ops |-> 0, added |-> {}, removed |-> {}]
    /\ dvp_rows = None /\ stats_db = None /\ plays = None /\ top_plays = None
    /\ picks_file = None

PickIds(picks) == { picks[i].id : i \in 1..Len(picks) }

\* an operation up to its save_picks call: picks = load_picks(), then the
\* change of the session's copy; remove and update return without saving
\* when the index is out of range, clear_all_picks saves [] without loading
PickLoad(s) ==
    /\ pc[s] = "idle"
    /\ ret.ops < MaxOps
    /\ \E call \in PickOps(ret.ops + 1) :
          LET picks == load_picks(picks_file)
              saves == call.op \in {"add_pick", "clear_all_picks"} \/ InRange(call.index, picks)
              changed ==
                  CASE call.op = "add_pick" -> Append(picks, call.pick)
                    [] call.op = "clear_all_picks" -> <<>>
                    [] call.op = "remove_pick" /\ saves -> RemoveAt(picks, call.index + 1)
                    [] call.op = "update_pick_result" /\ saves ->
                          [picks EXCEPT ![call.index + 1].result = call.result]
                    [] OTHER -> picks
          IN  /\ args' = [args EXCEPT ![s] = IF saves THEN Some(call) ELSE None]
              /\ locals' = [locals EXCEPT ![s] =
                               IF saves THEN Some([loaded |-> picks, picks |-> changed])
                               ELSE None]
              /\ pc' = [pc EXCEPT ![s] = IF saves THEN "open" ELSE "idle"]
    /\ ret' = [ret EXCEPT !.ops = ret.ops + 1]
    /\ UNCHANGED <<fn, mainVars>>

\* save_picks: open(PICKS_FILE, "w") empties the file
PickOpen(s) ==
    /\ pc[s] = "open"
    /\ picks_file' = None
    /\ pc' = [pc EXCEPT ![s] = "dump"]
    /\ UNCHANGED <<fn, args, ret, locals, dvp_rows, stats_db, plays, top_plays>>

\* save_picks: json.dump(picks, f), and the operation returns
PickDump(s) ==
    /\ pc[s] = "dump"
    /\ picks_file' = Some(Val(locals[s]).picks)
    /\ LET call == Val(args[s])
           gone == PickIds(Val(locals[s]).loaded) \ PickIds(Val(locals[s]).picks)
       IN  ret' = [ret EXCEPT !.added = IF call.op = "add_pick" THEN @ \cup {call.pick.id}
                                        ELSE @,
                              !.removed = IF call.op = "clear_all_picks"
                                          THEN @ \cup ret.added
                                          ELSE @ \cup gone]
    /\ pc' = [pc EXCEPT ![s] = "idle"]
    /\ args' = [args EXCEPT ![s] = None]
    /\ locals' = [locals EXCEPT ![s] = None]
    /\ UNCHANGED <<fn, dvp_rows, stats_db, plays, top_plays>>

NextPicks == \E s \in Sessions : PickLoad(s) \/ PickOpen(s) \/ PickDump(s)

SpecPicks == InitPicks /\ [][NextPicks]_vars

AllIdle == \A s \in Sessions : pc[s] = "idle"

\* C30: when two sessions change the picks file concurrently no update is
\* lost: once their operations have returned, every pick added by either
\* session is in the stored list unless it was removed or cleared.
C30_NoLostUpdate ==
    (fn = "dashboard" /\ AllIdle) =>
        (ret.added \ ret.removed) \subseteq PickIds(load_picks(picks_file))

====
